---- MODULE Spec2Model ----
(***************************************************************************)
(* Client-side reservation lifecycle of the parking app.                   *)
(*                                                                         *)
(* Spec        : the reservation screen (src/app/reservation.tsx): create, *)
(*               checkout hand-off and the payment confirmation poller.    *)
(* SpecDetails : the reservation details screen                            *)
(*               (src/app/reservation-details.tsx): fetch and cancel.      *)
(* SpecHome    : the home screen (src/app/(tabs)/index.tsx): the latest    *)
(*               reservation, the voucher check, the QR consumption poll.  *)
(* SpecQr      : the QR section of the home screen: the two-minute window  *)
(*               after consumption and what the section renders.           *)
(* SpecVouchers: the voucher displays of the home and reservation screens  *)
(*               as functions of the backend's answers.                    *)
(* SpecGateway : the request function apiRequest                           *)
(*               (src/saffeh-scanner/saffeh-scanner/utils/index.ts).       *)
(* SpecReturn  : the details screen on top of the home screen: cancel and  *)
(*               return to the home screen's focus refresh.                *)
(* SpecScanner : the gate scanner app (src/unnamed/part_009, part_010):    *)
(*               scan, validation, result display and reset.               *)
(*                                                                         *)
(* The backend is not part of the repository: its reservation follows the  *)
(* lifecycle the specification document gives for it.                      *)
(*                                                                         *)
(* Every `await` of an async handler is a suspension point: the handler's  *)
(* position is kept in a pc variable and the code between two awaits is    *)
(* one action.  A state change and the React effects that its commit       *)
(* re-runs are one action.  storage.getToken()/clearAuth() take effect at  *)
(* the step at which their promise resolves.  Once the screen is unmounted *)
(* its state setters do nothing, but a suspended handler still resumes.    *)
(***************************************************************************)
EXTENDS Integers, Sequences, FiniteSets, Bags, TLC

\* Number of pollForPayment invocations that may be suspended at once.
MaxPolls == 2

\* Number of confirmPayment outcomes the history keeps.
MaxLog == 3

PollIds == 1..MaxPolls

NONE == "none"

\* `null` in a state that holds a Reservation object.
NoReservation == [status |-> NONE, qrToken |-> FALSE]

\* Number of async calls of the home screen that may be suspended at once.
MaxCalls == 3

\* `null` in the home screen's latestReservation.
NoLatest ==
  [id |-> NONE, status |-> NONE, qrToken |-> FALSE, consumedAt |-> FALSE,
   cancelledAt |-> FALSE]

\* A request nobody has answered yet.
NoAnswer == [out |-> NONE, r |-> NoLatest]

\* `null` of a timestamp, and of the reservation the QR section tracks.
NoTime == 0
MaxTime == 6
QrIds == {"resA", "resB"}
NoTracked ==
  [id |-> NONE, status |-> NONE, qrToken |-> FALSE, consumedAt |-> NoTime,
   validUntil |-> NoTime, cancelledAt |-> FALSE]

\* No setTimeout is pending.
NoTimer == [due |-> NoTime, id |-> NONE]

\* no fetch was made / apiRequest has not finished
NoResponse == [fetch |-> NONE, status |-> 0, isJson |-> FALSE, body |-> <<>>]
NoResult == [kind |-> NONE, status |-> 0, message |-> NONE, parsed |-> FALSE]
\* What the closure of a call holds of latestReservation: nothing.
NoCap == [id |-> NONE, consumedAt |-> FALSE]

\* useState<string>('') of the scanner app (part_009:27, part_010:38)
NoData == ""

VARIABLES
  \* ---- route parameters of the reservation screen (reservation.tsx:22)
  locationId, gateId,
  \* ---- useState of the reservation screen (reservation.tsx:30-40)
  loading, reserving, waitingForPayment, showSuccessModal,
  reservationId, sessionId, checkoutUrl, error, reservationStatus,
  \* ---- credential store (utils/index.ts:470-543)
  token, user,
  \* ---- navigation: is the screen mounted, and where the router went
  mounted, route,
  \* ---- number of live setInterval timers of the polling effect
  intervals,
  \* ---- position of each pollForPayment invocation
  polls,
  \* ---- position of handleReserve / the button's onPress, and of
  \*      fetchLocationDetails
  resPc, locPc,
  \* ---- history: a confirmation was processed by the mounted screen; a
  \*      poll's 401 was processed to the end (clearAuth + redirect); the
  \*      outcome of the confirmPayment call processed last; the outcomes of
  \*      the first confirmPayment calls in the order they were processed
  successDone, e401Done, lastResp, pollLog,
  \* ---- the backend's copy of the reservation a screen looks at, and the
  \*      letter case the backend writes statuses in
  srvStatus, wireLower,
  \* ---- useState of the reservation details screen
  \*      (reservation-details.tsx:19-23); the d prefix keeps them apart from
  \*      the reservation screen's
  dReservation, dLoading, dCancelling, dError, dSuccessMessage,
  \* ---- position of fetchReservationDetails / handleCancelReservation, is
  \*      the fetch the one awaited inside handleCancelReservation, and is
  \*      the 2-second router.back() timer pending
  detPc, dNested, dBackTimer,
  \* ---- the backend's copy of the rest of the reservation and of the
  \*      user's vouchers
  srvQrToken, srvConsumedAt, srvVouchers,
  \* ---- useState of the home screen ((tabs)/index.tsx:28-30); the spinner
  \*      flags reservationsLoading and vouchersLoading are left out
  latestReservation, hasVouchers,
  \* ---- is the home tab focused; number of live timers of the QR
  \*      consumption poll; the bag of suspended async calls of the home
  \*      screen, each with its kind, its position (pc), the answer on its way
  \*      back (snap) and what its closure holds of latestReservation (cap)
  focused, pollIntervals, calls,
  \* ---- the QR section of the home screen ((tabs)/index.tsx:36-38, 114-161,
  \*      474-518): the clock, the reservation the section tracks, the hidden
  \*      flag, the two refs of the effect, the pending hide timer, what the
  \*      last render put on the screen, and when the gate scanner redeemed
  \*      each reservation's token
  now, trackedReservation, qrCodeHidden, consumedExpiredTimestampRef,
  reservationIdRef, hideTimer, qrSection, gateScans,
  \* ---- the voucher the home screen's modal lists ((tabs)/index.tsx:33),
  \*      the vouchers the reservation screen holds (reservation.tsx:47), and
  \*      which of the voucher displays have loaded
  vouchers, availableVouchers, vouchersShown,
  \* ---- the request function of the API gateway (utils/index.ts:216-344):
  \*      what fetch produced, and what apiRequest returned or threw
  gwResponse, gwResult,
  \* ---- the gate scanner app: useState of ScannerScreen (part_010:33-38),
  \*      useState and ref of QRScanner (part_009:27-28), the pending
  \*      setTimeout(resetScanner) timers, the validateQRCode calls in
  \*      flight, the number of scans accepted so far, and the clock in
  \*      seconds
  isScanning, scanStatus, lastScannedToken, lastScannedData, lastScanTime,
  resetTimers, validations, scanCount, scNow

screenVars == <<loading, reserving, waitingForPayment, showSuccessModal,
                reservationId, sessionId, checkoutUrl, error, reservationStatus>>
paramVars == <<locationId, gateId>>
authVars == <<token, user>>
histVars == <<successDone, e401Done, lastResp, pollLog>>
resVars == <<paramVars, screenVars, intervals, polls, resPc, locPc, histVars>>
srvVars == <<srvStatus, wireLower>>
detVars == <<dReservation, dLoading, dCancelling, dError, dSuccessMessage,
             detPc, dNested, dBackTimer>>
homeSrvVars == <<srvQrToken, srvConsumedAt, srvVouchers>>
homeVars == <<latestReservation, hasVouchers, focused, pollIntervals, calls>>
\* what an action of the reservation screen / of the details screen / of the
\* home screen leaves alone
qrVars == <<now, trackedReservation, qrCodeHidden, consumedExpiredTimestampRef,
            reservationIdRef, hideTimer, qrSection, gateScans>>
vchVars == <<vouchers, availableVouchers, vouchersShown>>
gwVars == <<gwResponse, gwResult>>
scVars == <<isScanning, scanStatus, lastScannedToken, lastScannedData, lastScanTime,
            resetTimers, validations, scanCount, scNow>>
notResVars == <<srvVars, detVars, homeSrvVars, homeVars, qrVars, vchVars, gwVars, scVars>>
notDetVars == <<resVars, homeSrvVars, homeVars, qrVars, vchVars, gwVars, scVars>>
notHomeVars == <<resVars, detVars, qrVars, vchVars, gwVars, scVars>>
notQrVars == <<resVars, srvVars, detVars, homeSrvVars, homeVars, authVars,
               mounted, route, vchVars, gwVars, scVars>>
notVchVars == <<resVars, srvVars, detVars, homeSrvVars, latestReservation,
                focused, pollIntervals, calls, qrVars, authVars, mounted, route,
                gwVars, scVars>>
notGwVars == <<resVars, srvVars, detVars, homeSrvVars, homeVars, qrVars, vchVars,
               authVars, mounted, route, scVars>>
notScVars == <<resVars, srvVars, detVars, homeSrvVars, homeVars, qrVars, vchVars,
               gwVars, authVars, mounted, route>>

vars == <<locationId, gateId, loading, reserving, waitingForPayment,
          showSuccessModal, reservationId, sessionId, checkoutUrl, error,
          reservationStatus, token, user, mounted, route, intervals, polls,
          resPc, locPc, successDone, e401Done, lastResp, pollLog,
          srvStatus, wireLower, dReservation, dLoading, dCancelling, dError,
          dSuccessMessage, detPc, dNested, dBackTimer,
          srvQrToken, srvConsumedAt, srvVouchers, latestReservation,
          hasVouchers, focused, pollIntervals, calls,
          now, trackedReservation, qrCodeHidden, consumedExpiredTimestampRef,
          reservationIdRef, hideTimer, qrSection, gateScans,
          vouchers, availableVouchers, vouchersShown, gwResponse, gwResult,
          isScanning, scanStatus, lastScannedToken, lastScannedData,
          lastScanTime, resetTimers, validations, scanCount, scNow>>

----------------------------------------------------------------------------
\* Messages the screen can put in `error`.
ERR_MISSING == "Missing required information"
ERR_BROWSER == "Failed to open payment page. Please try again."
ERR_API == "api error message"

\* Results of a one-shot request: success, 401, any other failure.
OneShotResults == {"ok", "401", "err"}

\* confirmPayment outcomes: a 2xx body {reservation.status, alreadyConfirmed}
\* or an ApiError with a status.
ConfirmStatuses == {"CONFIRMED", "confirmed", "PENDING"}
ErrorCodes == {400, 401, 500, 0}
ConfirmResponses ==
  [ok : {TRUE}, rstatus : ConfirmStatuses, already : BOOLEAN, code : {200}]
  \cup [ok : {FALSE}, rstatus : {NONE}, already : {FALSE}, code : ErrorCodes]

\* reservation.tsx:80: response.reservation.status === 'CONFIRMED' || response.alreadyConfirmed
IsConfirmed(r) == r.ok /\ (r.rstatus = "CONFIRMED" \/ r.already)

----------------------------------------------------------------------------
\* The polling effect (reservation.tsx:58-103), deps
\* [waitingForPayment, reservationId, sessionId].
EffectLive(w, rid, sid) == w /\ rid # NONE /\ sid # NONE

DepsChanged(w, rid, sid) ==
  <<w, rid, sid>> # <<waitingForPayment, reservationId, sessionId>>

\* Mutant of EffectIntervals: the effect returns no cleanup, a re-run leaves
\* the previous interval running.
EffectIntervalsKept(w, rid, sid) ==
  IF DepsChanged(w, rid, sid)
  THEN intervals + (IF EffectLive(w, rid, sid) THEN 1 ELSE 0)
  ELSE intervals

\* The timers after a commit with the new deps: the cleanup of the previous
\* run clears its interval, the new run creates one when its guard passes.
EffectIntervals(w, rid, sid) ==
  IF DepsChanged(w, rid, sid)
  THEN intervals
       - (IF EffectLive(waitingForPayment, reservationId, sessionId) THEN 1 ELSE 0)
       + (IF EffectLive(w, rid, sid) THEN 1 ELSE 0)
  ELSE intervals

\* Mutant of EffectRuns: the effect body only creates the interval, the first
\* call waits for the first tick.
EffectRunsNever(w, rid, sid) == FALSE

\* Does the commit run the effect body, and with it the immediate
\* pollForPayment() of reservation.tsx:100?
EffectRuns(w, rid, sid) == DepsChanged(w, rid, sid) /\ EffectLive(w, rid, sid)

FreePolls == {p \in PollIds : polls[p] = "free"}
HasFreePoll == FreePolls # {}
NextPoll == CHOOSE p \in FreePolls : \A q \in FreePolls : p <= q

\* pollForPayment() is invoked: it suspends at `await storage.getToken()`.
StartPoll == [polls EXCEPT ![NextPoll] = "getToken"]

\* router.replace / router.back leave the screen: it is unmounted and the
\* effect cleanup clears the interval (reservation.tsx:102).
Leave(to) ==
  /\ route' = to
  /\ mounted' = FALSE
  /\ intervals' = 0

\* Mutant of ClearAuth: only the token key is removed, the user record stays.
ClearAuthTokenOnly ==
  /\ token' = NONE
  /\ user' = user

\* storage.clearAuth (utils/index.ts:535-542).
ClearAuth ==
  /\ token' = NONE
  /\ user' = NONE

----------------------------------------------------------------------------
\* The credential store when a screen opens.
AuthInit ==
  /\ token \in {NONE, "tok1"}
  /\ user = IF token = NONE THEN NONE ELSE "user1"

\* The reservation screen after its first render and mount effects.
ResInit ==
  /\ locationId \in {NONE, "loc1"}
  /\ gateId \in {NONE, "gate1"}
  /\ loading = TRUE
  /\ reserving = FALSE
  /\ waitingForPayment = FALSE
  /\ showSuccessModal = FALSE
  /\ reservationId = NONE
  /\ sessionId = NONE
  /\ checkoutUrl = NONE
  /\ error = NONE
  /\ reservationStatus = NONE
  /\ intervals = 0
  /\ polls = [p \in PollIds |-> "free"]
  /\ resPc = "idle"
  \* the mount effect (reservation.tsx:50-55) has started fetchLocationDetails
  /\ locPc = IF locationId # NONE THEN "getToken" ELSE "idle"
  /\ successDone = FALSE
  /\ e401Done = FALSE
  /\ lastResp = NONE
  /\ pollLog = <<>>

\* The reservation screen is not on the stack.
ResOff ==
  /\ locationId = NONE
  /\ gateId = NONE
  /\ loading = TRUE
  /\ reserving = FALSE
  /\ waitingForPayment = FALSE
  /\ showSuccessModal = FALSE
  /\ reservationId = NONE
  /\ sessionId = NONE
  /\ checkoutUrl = NONE
  /\ error = NONE
  /\ reservationStatus = NONE
  /\ intervals = 0
  /\ polls = [p \in PollIds |-> "free"]
  /\ resPc = "idle"
  /\ locPc = "idle"
  /\ successDone = FALSE
  /\ e401Done = FALSE
  /\ lastResp = NONE
  /\ pollLog = <<>>

\* The details screen is not on the stack.
DetOff ==
  /\ dReservation = NoReservation
  /\ dLoading = TRUE
  /\ dCancelling = FALSE
  /\ dError = NONE
  /\ dSuccessMessage = NONE
  /\ detPc = "idle"
  /\ dNested = FALSE
  /\ dBackTimer = FALSE

\* No screen that looks at the backend's reservation is on the stack.
SrvOff ==
  /\ srvStatus = NONE
  /\ wireLower = FALSE

\* No screen that looks at the rest of the backend's reservation or at the
\* vouchers is on the stack.
HomeSrvOff ==
  /\ srvQrToken = FALSE
  /\ srvConsumedAt = FALSE
  /\ srvVouchers = <<>>

\* The home screen is not on the stack.
HomeOff ==
  /\ latestReservation = NoLatest
  /\ hasVouchers = FALSE
  /\ focused = FALSE
  /\ pollIntervals = 0
  /\ calls = EmptyBag

\* The scanner app is not running.
ScOff ==
  /\ isScanning = FALSE
  /\ scanStatus = "idle"
  /\ lastScannedToken = NoData
  /\ lastScannedData = NoData
  /\ lastScanTime = 0
  /\ resetTimers = {}
  /\ validations = {}
  /\ scanCount = 0
  /\ scNow = 0

\* No request is being made through apiRequest.
GwOff ==
  /\ gwResponse = NoResponse
  /\ gwResult = NoResult

VchOff ==
  /\ vouchers = <<>>
  /\ availableVouchers = <<>>
  /\ vouchersShown = {}

QrOff ==
  /\ now = 1
  /\ trackedReservation = NoTracked
  /\ qrCodeHidden = FALSE
  /\ consumedExpiredTimestampRef = NoTime
  /\ reservationIdRef = NONE
  /\ hideTimer = NoTimer
  /\ qrSection = "none"
  /\ gateScans = [i \in QrIds |-> NoTime]

Init ==
  /\ AuthInit
  /\ ResInit
  /\ SrvOff
  /\ DetOff
  /\ HomeSrvOff
  /\ HomeOff
  /\ QrOff
  /\ VchOff
  /\ GwOff
  /\ ScOff
  /\ mounted = TRUE
  /\ route = "reservation"

----------------------------------------------------------------------------
\* fetchLocationDetails (reservation.tsx:105-137)

\* resumes after `await storage.getToken()`
LocGetToken ==
  /\ locPc = "getToken"
  /\ IF token = NONE
     THEN /\ Leave("welcome")
          /\ locPc' = "idle"
     ELSE /\ locPc' = "inflight"
          /\ UNCHANGED <<mounted, route, intervals>>
  /\ UNCHANGED <<notResVars, paramVars, screenVars, authVars, polls, resPc, histVars>>

\* resumes after `await getLocation(locationId)`
LocResponse(r) ==
  /\ locPc = "inflight"
  /\ locPc' = IF r = "401" THEN "clearAuth" ELSE "idle"
  /\ IF mounted /\ r # "401"
     THEN /\ loading' = FALSE
          /\ error' = IF r = "err" THEN ERR_API ELSE error
     ELSE UNCHANGED <<loading, error>>
  /\ UNCHANGED <<notResVars, paramVars, reserving, waitingForPayment, showSuccessModal,
                 reservationId, sessionId, checkoutUrl, reservationStatus,
                 authVars, mounted, route, intervals, polls, resPc, histVars>>

\* resumes after `await storage.clearAuth()` (reservation.tsx:127-129)
LocClearAuth ==
  /\ locPc = "clearAuth"
  /\ ClearAuth
  /\ Leave("welcome")
  /\ locPc' = "idle"
  /\ UNCHANGED <<notResVars, paramVars, screenVars, polls, resPc, histVars>>

\* What the render shows (reservation.tsx:264-300).
MainView == ~loading /\ ~(error # NONE /\ reservationStatus = NONE)
ErrorView == ~loading /\ error # NONE /\ reservationStatus = NONE
ModalOpen == waitingForPayment \/ showSuccessModal

\* the Retry button of the error view (reservation.tsx:292-298)
Retry ==
  /\ mounted /\ ErrorView /\ ~ModalOpen
  /\ locPc = "idle"
  /\ IF locationId = NONE
     THEN /\ error' = "Location ID is missing"
          /\ loading' = FALSE
          /\ UNCHANGED locPc
     ELSE /\ loading' = TRUE
          /\ error' = NONE
          /\ locPc' = "getToken"
  /\ UNCHANGED <<notResVars, paramVars, reserving, waitingForPayment, showSuccessModal,
                 reservationId, sessionId, checkoutUrl, reservationStatus,
                 authVars, mounted, route, intervals, polls, resPc, histVars>>

\* Mutant of ButtonVisible: the button stays on the screen once the
\* reservation is ACTIVE.
ButtonVisibleActive == mounted /\ MainView /\ ~ModalOpen

----------------------------------------------------------------------------
\* The Reserve & Pay button (reservation.tsx:437-486).
ButtonVisible ==
  mounted /\ MainView /\ ~waitingForPayment /\ reservationStatus # "ACTIVE"
  /\ ~ModalOpen

\* Mutant of ProceedBranch: the press always takes the create branch.
ProceedBranchNever == FALSE

\* reservation.tsx:448: the reservation exists already, proceed to payment
ProceedBranch == reservationStatus = "PENDING" /\ checkoutUrl # NONE

\* Mutant of MissingInput: the gate id is not checked.
MissingInputLocationOnly == locationId = NONE

\* reservation.tsx:163: if (!gateId || !locationId)
MissingInput == gateId = NONE \/ locationId = NONE

\* onPress, branch of reservation.tsx:448-463 up to `await openBrowserAsync`
ProceedToPayment ==
  /\ ButtonVisible /\ ~reserving /\ resPc = "idle"
  /\ ProceedBranch
  /\ HasFreePoll
  /\ reserving' = TRUE
  /\ error' = NONE
  /\ waitingForPayment' = TRUE
  /\ intervals' = EffectIntervals(TRUE, reservationId, sessionId)
  /\ polls' = IF EffectRuns(TRUE, reservationId, sessionId) THEN StartPoll ELSE polls
  /\ resPc' = "browser"
  /\ UNCHANGED <<notResVars, paramVars, loading, showSuccessModal, reservationId, sessionId,
                 checkoutUrl, reservationStatus, authVars, mounted, route,
                 locPc, histVars>>

\* onPress, else branch: handleReserve (reservation.tsx:162-170) up to
\* `await storage.getToken()`
HandleReserve ==
  /\ ButtonVisible /\ ~reserving /\ resPc = "idle"
  /\ ~ProceedBranch
  /\ IF MissingInput
     THEN /\ error' = ERR_MISSING
          /\ UNCHANGED <<reserving, resPc>>
     ELSE /\ reserving' = TRUE
          /\ error' = NONE
          /\ resPc' = "getToken"
  /\ UNCHANGED <<notResVars, paramVars, loading, waitingForPayment, showSuccessModal,
                 reservationId, sessionId, checkoutUrl, reservationStatus,
                 authVars, mounted, route, intervals, polls, locPc, histVars>>

\* handleReserve resumes after `await storage.getToken()` (reservation.tsx:172-184)
ResGetToken ==
  /\ resPc = "getToken"
  /\ IF token = NONE
     THEN /\ Leave("welcome")
          /\ resPc' = "idle"
     ELSE /\ resPc' = "creating"
          /\ UNCHANGED <<mounted, route, intervals>>
  /\ UNCHANGED <<notResVars, paramVars, screenVars, authVars, polls, locPc, histVars>>

\* handleReserve resumes after `await createReservation(...)`
\* (reservation.tsx:186-201 on success, 207-218 on failure)
CreateResponse(r) ==
  /\ resPc = "creating"
  /\ CASE r = "ok" ->
            /\ resPc' = "browser"
            /\ IF mounted
               THEN /\ HasFreePoll
                    /\ reservationId' = "res1"
                    /\ sessionId' = "cs1"
                    /\ checkoutUrl' = "url1"
                    /\ reservationStatus' = "PENDING"
                    /\ waitingForPayment' = TRUE
                    /\ intervals' = EffectIntervals(TRUE, "res1", "cs1")
                    /\ polls' = IF EffectRuns(TRUE, "res1", "cs1") THEN StartPoll ELSE polls
               ELSE UNCHANGED <<reservationId, sessionId, checkoutUrl,
                                reservationStatus, waitingForPayment, intervals, polls>>
            /\ UNCHANGED <<error, reserving>>
       [] r = "401" ->
            /\ resPc' = "clearAuth"
            /\ UNCHANGED <<reservationId, sessionId, checkoutUrl, reservationStatus,
                           waitingForPayment, intervals, polls, error, reserving>>
       [] r = "err" ->
            /\ resPc' = "idle"
            /\ error' = IF mounted THEN ERR_API ELSE error
            /\ reserving' = IF mounted THEN FALSE ELSE reserving
            /\ UNCHANGED <<reservationId, sessionId, checkoutUrl, reservationStatus,
                           waitingForPayment, intervals, polls>>
  /\ UNCHANGED <<notResVars, paramVars, loading, showSuccessModal, authVars, mounted, route,
                 locPc, histVars>>

\* handleReserve resumes after `await storage.clearAuth()` (reservation.tsx:210-212)
ResClearAuth ==
  /\ resPc = "clearAuth"
  /\ ClearAuth
  /\ Leave("welcome")
  /\ resPc' = "idle"
  /\ UNCHANGED <<notResVars, paramVars, screenVars, polls, locPc, histVars>>

\* openBrowserAsync resolved (reservation.tsx:216-218, 461-463)
BrowserReturn ==
  /\ resPc = "browser"
  /\ resPc' = "idle"
  /\ reserving' = IF mounted THEN FALSE ELSE reserving
  /\ UNCHANGED <<notResVars, paramVars, loading, waitingForPayment, showSuccessModal,
                 reservationId, sessionId, checkoutUrl, error, reservationStatus,
                 authVars, mounted, route, intervals, polls, locPc, histVars>>

\* openBrowserAsync rejected (reservation.tsx:202-206, 457-463)
BrowserFail ==
  /\ resPc = "browser"
  /\ resPc' = "idle"
  /\ IF mounted
     THEN /\ error' = ERR_BROWSER
          /\ waitingForPayment' = FALSE
          /\ reserving' = FALSE
          /\ intervals' = EffectIntervals(FALSE, reservationId, sessionId)
     ELSE UNCHANGED <<error, waitingForPayment, reserving, intervals>>
  /\ UNCHANGED <<notResVars, paramVars, loading, showSuccessModal, reservationId, sessionId,
                 checkoutUrl, reservationStatus, authVars, mounted, route,
                 polls, locPc, histVars>>

----------------------------------------------------------------------------
\* The payment poller (reservation.tsx:58-103)

\* a 3-second tick of the interval invokes pollForPayment (reservation.tsx:99)
Tick ==
  /\ mounted /\ intervals > 0
  /\ HasFreePoll
  /\ polls' = StartPoll
  /\ UNCHANGED <<notResVars, paramVars, screenVars, authVars, mounted, route, intervals,
                 resPc, locPc, histVars>>

\* pollForPayment resumes after `await storage.getToken()`: without a token it
\* redirects, otherwise it starts the confirmPayment call (reservation.tsx:65-77)
PollGetToken(p) ==
  /\ polls[p] = "getToken"
  /\ IF token = NONE
     THEN /\ Leave("welcome")
          /\ polls' = [polls EXCEPT ![p] = "free"]
     ELSE /\ polls' = [polls EXCEPT ![p] = "inflight"]
          /\ UNCHANGED <<mounted, route, intervals>>
  /\ UNCHANGED <<notResVars, paramVars, screenVars, authVars, resPc, locPc, histVars>>

\* reservation.tsx:80-85: the success branch of pollForPayment
PollSuccess ==
  /\ waitingForPayment' = FALSE
  /\ reservationStatus' = "ACTIVE"
  /\ error' = NONE
  /\ showSuccessModal' = TRUE
  /\ intervals' = EffectIntervals(FALSE, reservationId, sessionId)
  /\ successDone' = TRUE

\* Mutant of PollFailure: a failure other than 400 is shown to the user.
PollFailureSurfaced(r) ==
  /\ error' = IF r.code # 400 THEN ERR_API ELSE error
  /\ UNCHANGED <<waitingForPayment, reservationStatus, showSuccessModal,
                 intervals, successDone>>

\* reservation.tsx:86-96: the catch branch of pollForPayment for a status
\* other than 401: nothing but a console.error when the status is not 400
PollFailure(r) ==
  UNCHANGED <<waitingForPayment, reservationStatus, error, showSuccessModal,
              intervals, successDone>>

\* What the history keeps of a confirmPayment outcome.
Outcome(r) ==
  IF IsConfirmed(r) THEN "confirmed"
  ELSE IF r.ok THEN "other2xx"
  ELSE IF r.code = 401 THEN "unauthorized"
  ELSE "failed"

\* What the history's log keeps of a confirmPayment outcome: a failure with
\* status 400 apart from the other failures.
LogEntry(r) == IF ~r.ok /\ r.code = 400 THEN "failed400" ELSE Outcome(r)

\* pollForPayment resumes after `await confirmPayment(...)`
\* (reservation.tsx:79-96)
PollResponse(p, r) ==
  /\ polls[p] = "inflight"
  /\ polls' = [polls EXCEPT ![p] = IF ~r.ok /\ r.code = 401 THEN "clearAuth" ELSE "free"]
  /\ lastResp' = Outcome(r)
  /\ pollLog' = IF Len(pollLog) < MaxLog THEN Append(pollLog, LogEntry(r)) ELSE pollLog
  /\ IF mounted /\ IsConfirmed(r)
     THEN PollSuccess
     ELSE IF mounted /\ ~r.ok /\ r.code # 401
     THEN PollFailure(r)
     ELSE UNCHANGED <<waitingForPayment, reservationStatus, error,
                      showSuccessModal, intervals, successDone>>
  /\ UNCHANGED <<notResVars, paramVars, loading, reserving, reservationId, sessionId,
                 checkoutUrl, authVars, mounted, route, resPc, locPc, e401Done>>

\* pollForPayment resumes after `await storage.clearAuth()` (reservation.tsx:89-91)
PollClearAuth(p) ==
  /\ polls[p] = "clearAuth"
  /\ polls' = [polls EXCEPT ![p] = "free"]
  /\ ClearAuth
  /\ Leave("welcome")
  /\ e401Done' = TRUE
  /\ UNCHANGED <<notResVars, paramVars, screenVars, resPc, locPc, successDone, lastResp,
                 pollLog>>

\* the close button of the success modal (reservation.tsx:522-530)
DismissSuccessModal ==
  /\ mounted /\ showSuccessModal
  /\ showSuccessModal' = FALSE
  /\ UNCHANGED <<notResVars, paramVars, loading, reserving, waitingForPayment, reservationId,
                 sessionId, checkoutUrl, error, reservationStatus, authVars,
                 mounted, route, intervals, polls, resPc, locPc, histVars>>

\* the header's back button (reservation.tsx:221-229); a visible modal covers it
HandleBack ==
  /\ mounted /\ ~ModalOpen
  /\ Leave(IF reservationStatus = "ACTIVE" THEN "tabs" ELSE "back")
  /\ UNCHANGED <<notResVars, paramVars, screenVars, authVars, polls, resPc, locPc, histVars>>

----------------------------------------------------------------------------
Next ==
  \/ LocGetToken
  \/ \E r \in OneShotResults : LocResponse(r)
  \/ LocClearAuth
  \/ Retry
  \/ ProceedToPayment
  \/ HandleReserve
  \/ ResGetToken
  \/ \E r \in OneShotResults : CreateResponse(r)
  \/ ResClearAuth
  \/ BrowserReturn
  \/ BrowserFail
  \/ Tick
  \/ \E p \in PollIds : PollGetToken(p)
  \/ \E p \in PollIds, r \in ConfirmResponses : PollResponse(p, r)
  \/ \E p \in PollIds : PollClearAuth(p)
  \/ DismissSuccessModal
  \/ HandleBack

Spec == Init /\ [][Next]_vars

----------------------------------------------------------------------------
\* Reservation statuses (spec section 3) and their letter case.
Statuses == {"PENDING", "ACTIVE", "CONFIRMED", "CANCELLED", "COMPLETED", "EXPIRED"}
\* a status the backend may report that is none of these
UnknownStatus == "ON_HOLD"

\* String.prototype.toLowerCase / toUpperCase on the status strings.
ToLowerCase(s) ==
  CASE s = "PENDING" -> "pending"
    [] s = "ACTIVE" -> "active"
    [] s = "CONFIRMED" -> "confirmed"
    [] s = "CANCELLED" -> "cancelled"
    [] s = "COMPLETED" -> "completed"
    [] s = "EXPIRED" -> "expired"
    [] OTHER -> s

ToUpperCase(s) ==
  CASE s = "pending" -> "PENDING"
    [] s = "active" -> "ACTIVE"
    [] s = "confirmed" -> "CONFIRMED"
    [] s = "cancelled" -> "CANCELLED"
    [] s = "completed" -> "COMPLETED"
    [] s = "expired" -> "EXPIRED"
    [] OTHER -> s

\* The backend (not in this repository): the lifecycle edges of spec
\* section 4.2, and the status as it is written on the wire.
ServerEdges(st) ==
  CASE st = "PENDING" -> {"ACTIVE", "CONFIRMED", "CANCELLED", "EXPIRED"}
    [] st = "ACTIVE" -> {"COMPLETED", "CANCELLED", "EXPIRED"}
    [] st = "CONFIRMED" -> {"COMPLETED", "CANCELLED"}
    [] OTHER -> {}

Wire(st) == IF wireLower THEN ToLowerCase(st) ELSE st

ServerCancellable(st) == st \in {"PENDING", "ACTIVE", "CONFIRMED"}

----------------------------------------------------------------------------
\* The reservation details screen (src/app/reservation-details.tsx)

ERR_CANNOT_CANCEL == "This reservation cannot be cancelled"
MSG_CANCELLED == "Reservation cancelled successfully! A voucher has been issued."

\* Mutant of CanCancel: the handler does not check the status.
CanCancelNoGuard(status) == TRUE

\* reservation-details.tsx:106-107 and 151-155: the status, upper-cased, is
\* PENDING, ACTIVE or CONFIRMED
CanCancel(status) ==
  LET st == ToUpperCase(status)
  IN  st = "PENDING" \/ st = "ACTIVE" \/ st = "CONFIRMED"

canCancelUnlessOver ==
  /\ dReservation # NoReservation
  /\ ToUpperCase(dReservation.status) \notin {"CANCELLED", "COMPLETED", "EXPIRED"}

canCancelReservation == dReservation # NoReservation /\ CanCancel(dReservation.status)

DetLeave(to) ==
  /\ route' = to
  /\ mounted' = FALSE

\* The details screen after its first render: the mount effect
\* (reservation-details.tsx:25-29) has started fetchReservationDetails.
DetInit ==
  /\ srvStatus \in Statuses \cup {UnknownStatus}
  /\ wireLower \in BOOLEAN
  \* a reservation that was paid has a QR token
  /\ srvQrToken \in (IF srvStatus = "PENDING" THEN {FALSE} ELSE BOOLEAN)
  /\ srvConsumedAt = FALSE
  /\ srvVouchers = <<>>
  /\ dReservation = NoReservation
  /\ dLoading = TRUE
  /\ dCancelling = FALSE
  /\ dError = NONE
  /\ dSuccessMessage = NONE
  /\ detPc = "fetchGetToken"
  /\ dNested = FALSE
  /\ dBackTimer = FALSE

InitDetails ==
  /\ AuthInit
  /\ ResOff
  /\ DetInit
  /\ HomeOff
  /\ QrOff
  /\ VchOff
  /\ GwOff
  /\ ScOff
  /\ mounted = TRUE
  /\ route = "reservation-details"

\* The rest of handleCancelReservation once the awaited
\* fetchReservationDetails has returned (reservation-details.tsx:133-136, 146-148)
CancelTail ==
  /\ dBackTimer' = (dNested \/ dBackTimer)
  /\ dCancelling' = IF dNested /\ mounted THEN FALSE ELSE dCancelling
  /\ dNested' = FALSE

\* fetchReservationDetails resumes after `await storage.getToken()`
\* (reservation-details.tsx:42-48)
DetGetToken ==
  /\ detPc = "fetchGetToken"
  /\ IF token = NONE
     THEN /\ DetLeave("welcome")
          /\ detPc' = "idle"
          /\ CancelTail
     ELSE /\ detPc' = "fetchInflight"
          /\ UNCHANGED <<mounted, route, dBackTimer, dCancelling, dNested>>
  /\ UNCHANGED <<notDetVars, authVars, srvVars, dReservation, dLoading, dError,
                 dSuccessMessage>>

\* fetchReservationDetails resumes after `await getReservation(...)`
\* (reservation-details.tsx:48-62); a 2xx body carries the backend's copy
DetFetchResponse(r) ==
  /\ detPc = "fetchInflight"
  /\ CASE r = "ok" ->
            /\ dReservation' = IF mounted
                               THEN [status |-> Wire(srvStatus), qrToken |-> srvQrToken]
                               ELSE dReservation
            /\ dLoading' = IF mounted THEN FALSE ELSE dLoading
            /\ detPc' = "idle"
            /\ CancelTail
            /\ UNCHANGED dError
       [] r = "401" ->
            /\ detPc' = "fetchClearAuth"
            /\ UNCHANGED <<dReservation, dLoading, dError, dBackTimer, dCancelling, dNested>>
       [] r = "err" ->
            /\ dError' = IF mounted THEN ERR_API ELSE dError
            /\ dLoading' = IF mounted THEN FALSE ELSE dLoading
            /\ detPc' = "idle"
            /\ CancelTail
            /\ UNCHANGED dReservation
  /\ UNCHANGED <<notDetVars, authVars, srvVars, mounted, route, dSuccessMessage>>

\* fetchReservationDetails resumes after `await storage.clearAuth()`
\* (reservation-details.tsx:53-55)
DetFetchClearAuth ==
  /\ detPc = "fetchClearAuth"
  /\ ClearAuth
  /\ DetLeave("welcome")
  /\ detPc' = "idle"
  /\ CancelTail
  /\ UNCHANGED <<notDetVars, srvVars, dReservation, dLoading, dError, dSuccessMessage>>

\* the Retry button of the error view (reservation-details.tsx:177-183)
DetRetry ==
  /\ mounted /\ ~dLoading /\ dError # NONE
  /\ detPc = "idle"
  /\ dLoading' = TRUE
  /\ dError' = NONE
  /\ detPc' = "fetchGetToken"
  /\ UNCHANGED <<notDetVars, authVars, srvVars, mounted, route, dReservation,
                 dCancelling, dSuccessMessage, dNested, dBackTimer>>

\* handleCancelReservation up to `await storage.getToken()`
\* (reservation-details.tsx:100-117).  The handler checks the status itself,
\* whatever the render offered.
HandleCancelReservation ==
  /\ mounted /\ detPc = "idle" /\ ~dCancelling
  /\ IF dReservation = NoReservation
     THEN UNCHANGED <<dError, dCancelling, dSuccessMessage, detPc>>
     ELSE IF ~CanCancel(dReservation.status)
     THEN /\ dError' = ERR_CANNOT_CANCEL
          /\ UNCHANGED <<dCancelling, dSuccessMessage, detPc>>
     ELSE /\ dCancelling' = TRUE
          /\ dError' = NONE
          /\ dSuccessMessage' = NONE
          /\ detPc' = "cancelGetToken"
  /\ UNCHANGED <<notDetVars, authVars, srvVars, mounted, route, dReservation,
                 dLoading, dNested, dBackTimer>>

\* handleCancelReservation resumes after `await storage.getToken()`
\* (reservation-details.tsx:117-123)
CancelGetToken ==
  /\ detPc = "cancelGetToken"
  /\ IF token = NONE
     THEN /\ DetLeave("welcome")
          /\ detPc' = "idle"
     ELSE /\ detPc' = "cancelInflight"
          /\ UNCHANGED <<mounted, route>>
  /\ UNCHANGED <<notDetVars, authVars, srvVars, dReservation, dLoading,
                 dCancelling, dError, dSuccessMessage, dNested, dBackTimer>>

\* handleCancelReservation resumes after `await cancelReservation(...)`
\* (reservation-details.tsx:123-128 on success, 137-148 on failure).  The
\* backend accepts the cancel only from a cancellable status.  On success the
\* handler calls fetchReservationDetails, which runs to its first await.
CancelResponse(r) ==
  /\ detPc = "cancelInflight"
  /\ CASE r = "ok" ->
            /\ ServerCancellable(srvStatus)
            /\ srvStatus' = "CANCELLED"
            /\ dSuccessMessage' = IF mounted THEN MSG_CANCELLED ELSE dSuccessMessage
            /\ dLoading' = IF mounted THEN TRUE ELSE dLoading
            /\ dError' = IF mounted THEN NONE ELSE dError
            /\ dNested' = TRUE
            /\ detPc' = "fetchGetToken"
            /\ UNCHANGED dCancelling
       [] r = "401" ->
            /\ detPc' = "cancelClearAuth"
            /\ UNCHANGED <<srvStatus, dSuccessMessage, dLoading, dError, dNested, dCancelling>>
       [] r = "err" ->
            /\ dError' = IF mounted THEN ERR_API ELSE dError
            /\ dCancelling' = IF mounted THEN FALSE ELSE dCancelling
            /\ detPc' = "idle"
            /\ UNCHANGED <<srvStatus, dSuccessMessage, dLoading, dNested>>
  /\ UNCHANGED <<notDetVars, authVars, wireLower, mounted, route, dReservation,
                 dBackTimer>>

\* handleCancelReservation resumes after `await storage.clearAuth()`
\* (reservation-details.tsx:139-142)
CancelClearAuth ==
  /\ detPc = "cancelClearAuth"
  /\ ClearAuth
  /\ DetLeave("welcome")
  /\ detPc' = "idle"
  /\ UNCHANGED <<notDetVars, srvVars, dReservation, dLoading, dCancelling,
                 dError, dSuccessMessage, dNested, dBackTimer>>

\* the setTimeout of reservation-details.tsx:134-136 fires: router.back()
BackTimerFires ==
  /\ dBackTimer
  /\ dBackTimer' = FALSE
  /\ DetLeave("back")
  /\ UNCHANGED <<notDetVars, authVars, srvVars, dReservation, dLoading,
                 dCancelling, dError, dSuccessMessage, detPc, dNested>>

\* handleBack (reservation-details.tsx:96-98)
DetHandleBack ==
  /\ mounted
  /\ DetLeave("back")
  /\ UNCHANGED <<notDetVars, authVars, srvVars, detVars>>

\* The backend moves the reservation on by itself (payment, gate scan, expiry).
ServerAdvance ==
  /\ \E st \in ServerEdges(srvStatus) : srvStatus' = st
  /\ UNCHANGED <<notDetVars, authVars, wireLower, mounted, route, detVars>>

\* reservation-details.tsx:167-185, 247-256: the content view is up and the
\* QR Code Token card is in it
QrTokenCard ==
  /\ mounted /\ ~dLoading /\ dError = NONE
  /\ dReservation # NoReservation
  /\ dReservation.qrToken

\* reservation-details.tsx:167-185, 259-285: the content view is up and the
\* Cancel Reservation button is in it
CancelOffered ==
  /\ mounted /\ ~dLoading /\ dError = NONE
  /\ canCancelReservation

DetNext ==
  \/ DetGetToken
  \/ \E r \in OneShotResults : DetFetchResponse(r)
  \/ DetFetchClearAuth
  \/ DetRetry
  \/ HandleCancelReservation
  \/ CancelGetToken
  \/ \E r \in OneShotResults : CancelResponse(r)
  \/ CancelClearAuth
  \/ BackTimerFires
  \/ DetHandleBack
  \/ ServerAdvance

SpecDetails == InitDetails /\ [][DetNext]_vars

----------------------------------------------------------------------------
\* The home screen (src/app/(tabs)/index.tsx): the latest reservation, the
\* voucher check and the QR consumption poll.

\* The backend (not in this repository) answers getMyReservations with its
\* copy of the user's reservations: none, or the single reservation res1.
ServerReservation ==
  IF srvStatus = NONE
  THEN NoLatest
  ELSE [id |-> "res1", status |-> Wire(srvStatus), qrToken |-> srvQrToken,
        consumedAt |-> srvConsumedAt, cancelledAt |-> (srvStatus = "CANCELLED")]

\* The vouchers the backend holds: a used one, an expired one, and one that
\* is not used, not expired and linked to res1.
UsedVoucher ==
  [used |-> TRUE, usedAt |-> TRUE, expiresAt |-> NoTime, reservationId |-> NONE,
   percentage |-> 10]
ExpiredVoucher ==
  [used |-> FALSE, usedAt |-> FALSE, expiresAt |-> 1, reservationId |-> NONE,
   percentage |-> 10]
LinkedVoucher ==
  [used |-> FALSE, usedAt |-> FALSE, expiresAt |-> MaxTime, reservationId |-> "res1",
   percentage |-> 10]
ServerVouchers == <<UsedVoucher, ExpiredVoucher, LinkedVoucher>>

\* Results of a request of the home screen.  Its catch blocks treat every
\* failure alike, so 401 stands for all of them.
HomeResults == {"ok", "401"}

\* (tabs)/index.tsx:73-77: shouldPoll of the QR consumption effect
ShouldPoll(l) ==
  /\ l # NoLatest
  /\ l.qrToken
  /\ ~l.consumedAt
  /\ ToUpperCase(l.status) # "CANCELLED"
  /\ ~l.cancelledAt

\* The timers of the QR consumption effect after a commit that holds l: the
\* cleanup of the previous run clears its interval (index.tsx:110), the new
\* run creates one when shouldPoll passes (index.tsx:84).
PollTimers(l) == IF ShouldPoll(l) THEN 1 ELSE 0

\* (tabs)/index.tsx:213-225: the reservation fetchLatestReservation keeps of
\* an answer: the first one that is neither CANCELLED nor EXPIRED, or null
LatestOf(r) ==
  IF r # NoLatest /\ ToUpperCase(r.status) \notin {"CANCELLED", "EXPIRED"}
  THEN r
  ELSE NoLatest

\* (tabs)/index.tsx:248-256: the ids of the reservations of an answer whose
\* status is ACTIVE, PENDING or CONFIRMED
ActiveReservationIds(r) ==
  IF r # NoLatest /\ ToUpperCase(r.status) \in {"ACTIVE", "PENDING", "CONFIRMED"}
  THEN {r.id}
  ELSE {}

\* (tabs)/index.tsx:262-281: the filter of checkVouchers
ActiveVoucher(v, ids) ==
  /\ ~(v.used \/ v.usedAt)
  /\ ~(v.expiresAt # NoTime /\ v.expiresAt <= now)
  /\ ~(v.reservationId # NONE /\ v.reservationId \in ids)

\* (tabs)/index.tsx:284: activeVouchers.length > 0
HasActiveVoucher(vs, r) ==
  \E k \in 1..Len(vs) : ActiveVoucher(vs[k], ActiveReservationIds(r))

\* An async function is called: it runs to its first await, storage.getToken().
Started(kind, cap) == [kind |-> kind, pc |-> "getToken", snap |-> NoAnswer, cap |-> cap]

Add(cs, c) == cs (+) SetToBag({c})
Remove(cs, c) == cs (-) SetToBag({c})

\* Call c is suspended at position pc.
At(c, kind, pc) == BagIn(c, calls) /\ c.kind = kind /\ c.pc = pc

\* n more calls may be suspended.
Room(n) == BagCardinality(calls) + n <= MaxCalls

\* checkVouchers() and fetchLatestReservation() are called one after the other
\* by call c, which returns ((tabs)/index.tsx:49-50, 62-63).
SpawnBoth(c) ==
  Add(Add(Remove(calls, c), Started("latest", NoCap)), Started("vouchers", NoCap))

\* The tabs, and the home screen in them, stay on the stack until
\* router.replace('/welcome'); a screen pushed on top of them leaves the home
\* screen mounted.
HomeMounted == route # "welcome"

\* No screen is on top of the tabs: the tabs were opened, or router.back()
\* returned to them.
HomeOnTop == route \in {"tabs", "back"}

\* The home screen after its first render: the mount effect has called
\* checkAuth ((tabs)/index.tsx:41-53) and the focus effect refreshData
\* ((tabs)/index.tsx:56-67).
HomeInit ==
  /\ srvStatus \in {NONE, "PENDING", "ACTIVE"}
  /\ wireLower \in BOOLEAN
  /\ srvQrToken = (srvStatus = "ACTIVE")
  /\ srvConsumedAt = FALSE
  /\ srvVouchers = ServerVouchers
  /\ latestReservation = NoLatest
  /\ hasVouchers = FALSE
  /\ focused = TRUE
  /\ pollIntervals = 0
  /\ calls = SetToBag({Started("checkAuth", NoCap), Started("refresh", NoCap)})

InitHome ==
  /\ AuthInit
  /\ ResOff
  /\ DetOff
  /\ HomeInit
  /\ QrOff
  /\ VchOff
  /\ GwOff
  /\ ScOff
  /\ mounted = TRUE
  /\ route = "tabs"

\* router.replace leaves the tabs: the home screen is unmounted and the
\* cleanup of the QR consumption effect clears its interval (index.tsx:110).
HomeLeave(to) ==
  /\ route' = to
  /\ mounted' = FALSE
  /\ focused' = FALSE
  /\ pollIntervals' = 0

\* checkAuth resumes after `await storage.getToken()` ((tabs)/index.tsx:43-51).
\* fetchLocations needs no token and is left out.  fetchLatestReservation and
\* checkVouchers run to their first await.
CheckAuthGetToken(c) ==
  /\ At(c, "checkAuth", "getToken")
  /\ IF token = NONE
     THEN /\ HomeLeave("welcome")
          /\ calls' = Remove(calls, c)
     ELSE /\ Room(1)
          /\ calls' = SpawnBoth(c)
          /\ UNCHANGED <<route, mounted, focused, pollIntervals>>
  /\ UNCHANGED <<notHomeVars, authVars, srvVars, homeSrvVars, latestReservation,
                 hasVouchers>>

\* the tab gains focus: useFocusEffect calls refreshData ((tabs)/index.tsx:56-67)
HomeFocus ==
  /\ HomeMounted /\ HomeOnTop /\ ~focused
  /\ Room(1)
  /\ focused' = TRUE
  /\ calls' = Add(calls, Started("refresh", NoCap))
  /\ UNCHANGED <<notHomeVars, authVars, srvVars, homeSrvVars, mounted, route,
                 latestReservation, hasVouchers, pollIntervals>>

\* the tab loses focus (another tab, or a screen pushed on top); the effects
\* of the home screen stay mounted
HomeBlur ==
  /\ HomeMounted /\ focused
  /\ focused' = FALSE
  /\ UNCHANGED <<notHomeVars, authVars, srvVars, homeSrvVars, mounted, route,
                 latestReservation, hasVouchers, pollIntervals, calls>>

\* refreshData resumes after `await storage.getToken()` ((tabs)/index.tsx:59-64)
RefreshGetToken(c) ==
  /\ At(c, "refresh", "getToken")
  /\ IF token = NONE
     THEN /\ calls' = Remove(calls, c)
     ELSE /\ Room(1)
          /\ calls' = SpawnBoth(c)
  /\ UNCHANGED <<notHomeVars, authVars, srvVars, homeSrvVars, mounted, route,
                 latestReservation, hasVouchers, focused, pollIntervals>>

\* fetchLatestReservation resumes after `await storage.getToken()`
\* ((tabs)/index.tsx:205-210, 230-232)
LatestGetToken(c) ==
  /\ At(c, "latest", "getToken")
  /\ IF token = NONE
     THEN /\ calls' = Remove(calls, c)
     ELSE /\ calls' = Add(Remove(calls, c), [c EXCEPT !.pc = "sent"])
  /\ UNCHANGED <<notHomeVars, authVars, srvVars, homeSrvVars, mounted, route,
                 latestReservation, hasVouchers, focused,
                 pollIntervals>>

\* checkVouchers resumes after `await storage.getToken()`
\* ((tabs)/index.tsx:238-243, 290-292)
VouchersGetToken(c) ==
  /\ At(c, "vouchers", "getToken")
  /\ IF token = NONE
     THEN /\ calls' = Remove(calls, c)
     ELSE /\ calls' = Add(Remove(calls, c), [c EXCEPT !.pc = "sent"])
  /\ UNCHANGED <<notHomeVars, authVars, srvVars, homeSrvVars, mounted, route,
                 latestReservation, hasVouchers, focused,
                 pollIntervals>>

\* a 3-second tick of the QR consumption interval ((tabs)/index.tsx:84-86):
\* the callback, whose closure holds the latestReservation of its effect run,
\* runs to `await storage.getToken()`
QrTick ==
  /\ HomeMounted /\ pollIntervals > 0
  /\ Room(1)
  /\ calls' = Add(calls, Started("qrpoll", [id |-> latestReservation.id,
                                            consumedAt |-> latestReservation.consumedAt]))
  /\ UNCHANGED <<notHomeVars, authVars, srvVars, homeSrvVars, mounted, route,
                 latestReservation, hasVouchers, focused, pollIntervals>>

\* the interval callback resumes after `await storage.getToken()`
\* ((tabs)/index.tsx:86-90)
QrGetToken(c) ==
  /\ At(c, "qrpoll", "getToken")
  /\ calls' = IF token = NONE
              THEN Remove(calls, c)
              ELSE Add(Remove(calls, c), [c EXCEPT !.pc = "sent"])
  /\ UNCHANGED <<notHomeVars, authVars, srvVars, homeSrvVars, mounted, route,
                 latestReservation, hasVouchers, focused, pollIntervals>>

\* The backend (not in this repository) handles a getMyReservations request
\* of fetchLatestReservation or of the QR consumption poll: the answer, which
\* reaches the client later, carries its copy of the reservation as of now, or
\* a failure.
ServerAnswer(c, out) ==
  /\ BagIn(c, calls) /\ c.pc = "sent" /\ c.kind \in {"latest", "qrpoll"}
  /\ calls' =
       Add(Remove(calls, c),
           [c EXCEPT
              !.pc = "answered",
              !.snap = [out |-> out,
                        r |-> IF out = "ok" THEN ServerReservation ELSE NoLatest]])
  /\ UNCHANGED <<notHomeVars, authVars, srvVars, homeSrvVars, mounted, route,
                 latestReservation, hasVouchers, focused, pollIntervals>>

\* fetchLatestReservation resumes after `await getMyReservations(token)`
\* ((tabs)/index.tsx:210-232); the catch only logs
LatestResponse(c) ==
  /\ At(c, "latest", "answered")
  /\ calls' = Remove(calls, c)
  /\ IF HomeMounted /\ c.snap.out = "ok"
     THEN /\ latestReservation' = LatestOf(c.snap.r)
          /\ pollIntervals' = PollTimers(LatestOf(c.snap.r))
     ELSE UNCHANGED <<latestReservation, pollIntervals>>
  /\ UNCHANGED <<notHomeVars, authVars, srvVars, homeSrvVars, mounted, route,
                 hasVouchers, focused>>

\* the interval callback resumes after `await getMyReservations(token)`
\* ((tabs)/index.tsx:92-106); the catch only logs
QrResponse(c) ==
  /\ At(c, "qrpoll", "answered")
  /\ calls' = Remove(calls, c)
  /\ IF /\ HomeMounted /\ c.snap.out = "ok"
        /\ c.snap.r # NoLatest
        /\ c.snap.r.id = c.cap.id
        /\ c.snap.r.consumedAt # c.cap.consumedAt
     THEN /\ latestReservation' = c.snap.r
          /\ pollIntervals' = PollTimers(c.snap.r)
     ELSE UNCHANGED <<latestReservation, pollIntervals>>
  /\ UNCHANGED <<notHomeVars, authVars, srvVars, homeSrvVars, mounted, route,
                 hasVouchers, focused>>

\* checkVouchers resumes after `await getVouchers(token)`
\* ((tabs)/index.tsx:244-248 on success, 285-292 on failure).  The answers to
\* checkVouchers are read as the backend writes them.
VouchersResponse(c, out) ==
  /\ At(c, "vouchers", "sent")
  /\ IF out = "ok"
     THEN /\ calls' = Add(Remove(calls, c), [c EXCEPT !.pc = "sent2"])
          /\ UNCHANGED hasVouchers
     ELSE /\ calls' = Remove(calls, c)
          /\ hasVouchers' = IF HomeMounted THEN FALSE ELSE hasVouchers
  /\ UNCHANGED <<notHomeVars, authVars, srvVars, homeSrvVars, mounted, route,
                 latestReservation, focused, pollIntervals>>

\* checkVouchers resumes after its `await getMyReservations(token)`
\* ((tabs)/index.tsx:248-292).  The backend's vouchers do not change while the
\* home screen is up, so the list of the first answer is the backend's list.
VouchersReservationsResponse(c, out) ==
  /\ At(c, "vouchers", "sent2")
  /\ calls' = Remove(calls, c)
  /\ hasVouchers' =
       IF ~HomeMounted THEN hasVouchers
       ELSE IF out = "ok"
       THEN HasActiveVoucher(srvVouchers, ServerReservation)
       ELSE FALSE
  /\ UNCHANGED <<notHomeVars, authVars, srvVars, homeSrvVars, mounted, route,
                 latestReservation, focused, pollIntervals>>

\* The backend moves the reservation on by itself (payment, expiry,
\* completion); a paid reservation has a QR token.
HomeServerAdvance ==
  /\ \E st \in ServerEdges(srvStatus) :
        /\ srvStatus' = st
        /\ srvQrToken' = (srvQrToken \/ st \in {"ACTIVE", "CONFIRMED"})
  /\ UNCHANGED <<notHomeVars, authVars, wireLower, srvConsumedAt, srvVouchers,
                 mounted, route, homeVars>>

\* The gate scanner redeems the QR token: consumedAt is set, once.
ServerConsume ==
  /\ srvQrToken /\ ~srvConsumedAt
  /\ srvStatus \in {"ACTIVE", "CONFIRMED"}
  /\ srvConsumedAt' = TRUE
  /\ UNCHANGED <<notHomeVars, authVars, srvVars, srvQrToken, srvVouchers,
                 mounted, route, homeVars>>

\* The suspended calls and the answers of the home screen.
HomeCalls == BagToSet(calls)

HomeNext ==
  \/ \E c \in HomeCalls : CheckAuthGetToken(c)
  \/ HomeFocus
  \/ HomeBlur
  \/ \E c \in HomeCalls : RefreshGetToken(c)
  \/ \E c \in HomeCalls : LatestGetToken(c)
  \/ \E c \in HomeCalls : VouchersGetToken(c)
  \/ QrTick
  \/ \E c \in HomeCalls : QrGetToken(c)
  \/ \E c \in HomeCalls, out \in HomeResults : ServerAnswer(c, out)
  \/ \E c \in HomeCalls : LatestResponse(c)
  \/ \E c \in HomeCalls : QrResponse(c)
  \/ \E c \in HomeCalls, out \in HomeResults : VouchersResponse(c, out)
  \/ \E c \in HomeCalls, out \in HomeResults : VouchersReservationsResponse(c, out)
  \/ HomeServerAdvance
  \/ ServerConsume

SpecHome == InitHome /\ [][HomeNext]_vars

----------------------------------------------------------------------------
\* The details screen pushed on top of the home screen: the user cancels a
\* reservation and returns.  The home screen has loaded and lost focus; its
\* reservation has no QR token yet, so its QR consumption poll is idle.  The
\* user is signed in, the backend answers every request and does not move
\* the reservation by itself.
ReturnInit ==
  /\ srvStatus \in {"PENDING", "ACTIVE"}
  /\ wireLower \in BOOLEAN
  /\ srvQrToken = FALSE
  /\ srvConsumedAt = FALSE
  /\ srvVouchers = ServerVouchers
  /\ dReservation = NoReservation
  /\ dLoading = TRUE
  /\ dCancelling = FALSE
  /\ dError = NONE
  /\ dSuccessMessage = NONE
  /\ detPc = "fetchGetToken"
  /\ dNested = FALSE
  /\ dBackTimer = FALSE
  /\ latestReservation = ServerReservation
  /\ hasVouchers = HasActiveVoucher(srvVouchers, ServerReservation)
  /\ focused = FALSE
  /\ pollIntervals = 0
  /\ calls = EmptyBag

InitReturn ==
  /\ token = "tok1"
  /\ user = "user1"
  /\ ResOff
  /\ QrOff
  /\ ReturnInit
  /\ VchOff
  /\ GwOff
  /\ ScOff
  /\ mounted = TRUE
  /\ route = "reservation-details"

ReturnNext ==
  \/ DetGetToken
  \/ DetFetchResponse("ok")
  \/ HandleCancelReservation
  \/ CancelGetToken
  \/ CancelResponse("ok")
  \/ BackTimerFires
  \/ DetHandleBack
  \/ HomeFocus
  \/ HomeBlur
  \/ \E c \in HomeCalls : RefreshGetToken(c)
  \/ \E c \in HomeCalls : LatestGetToken(c)
  \/ \E c \in HomeCalls : VouchersGetToken(c)
  \/ \E c \in HomeCalls : ServerAnswer(c, "ok")
  \/ \E c \in HomeCalls : LatestResponse(c)
  \/ \E c \in HomeCalls : VouchersResponse(c, "ok")
  \/ \E c \in HomeCalls : VouchersReservationsResponse(c, "ok")

SpecReturn == InitReturn /\ [][ReturnNext]_vars

----------------------------------------------------------------------------
\* The QR section of the home screen: the effect that hides a consumed code
\* two minutes after its consumption ((tabs)/index.tsx:114-161) and the
\* render of the section ((tabs)/index.tsx:474-518).  The clock counts
\* minutes.

\* The clock stops here.

\* (tabs)/index.tsx:142: const twoMinutes = 120000, in minutes
TwoMinutes == 2

\* The backend (not in this repository): resA is valid until minute 3, resB
\* has no validUntil.
ValidUntilOf == [i \in QrIds |-> IF i = "resA" THEN 3 ELSE NoTime]

\* What getMyReservations may hand to setLatestReservation: one of the two
\* reservations as the backend holds it now or held it earlier (an answer may
\* be late), or null.
QrAnswers ==
  {NoTracked} \cup
  UNION { { [id |-> i, status |-> st, qrToken |-> q, consumedAt |-> c,
             validUntil |-> ValidUntilOf[i], cancelledAt |-> x] :
              st \in {"ACTIVE", "CANCELLED", "cancelled"}, q \in BOOLEAN,
              c \in {NoTime, gateScans[i]}, x \in BOOLEAN } : i \in QrIds }

\* (tabs)/index.tsx:123: reservationIdRef.current !== latestReservation.id
IdChanged(r) == reservationIdRef # r.id

\* consumedExpiredTimestampRef after the effect has run for r
\* ((tabs)/index.tsx:115-139, 157-160)
EffectRef(r) ==
  IF r = NoTracked \/ r.consumedAt = NoTime
  THEN NoTime
  ELSE IF IdChanged(r) \/ consumedExpiredTimestampRef = NoTime
  THEN r.consumedAt
  ELSE consumedExpiredTimestampRef

\* (tabs)/index.tsx:141: timeElapsed = Date.now() - consumedExpiredTimestampRef.current
TimeElapsed(r) == now - EffectRef(r)

\* qrCodeHidden after the effect has run for r ((tabs)/index.tsx:115-160)
EffectHidden(r) ==
  IF r = NoTracked \/ r.consumedAt = NoTime
  THEN FALSE
  ELSE IF TimeElapsed(r) >= TwoMinutes
  THEN TRUE
  ELSE IF IdChanged(r) THEN FALSE ELSE qrCodeHidden

\* Mutant of HideDue: the timer is started for the whole window.
HideDueRestarted(r) == now + TwoMinutes

\* (tabs)/index.tsx:149-152: remainingTime = twoMinutes - timeElapsed, and the
\* time at which setTimeout(..., remainingTime) fires
HideDue(r) == now + (TwoMinutes - TimeElapsed(r))

\* The timer the effect run for r creates ((tabs)/index.tsx:147-152)
EffectTimer(r) ==
  IF r # NoTracked /\ r.consumedAt # NoTime /\ TimeElapsed(r) < TwoMinutes
  THEN [due |-> HideDue(r), id |-> r.id]
  ELSE NoTimer

\* Mutant of TimerAfter: the cleanup does not clear the previous timer.
TimerAfterKept(prev, new) == IF new = NoTimer THEN prev ELSE new

\* The pending timer after the effect re-ran: the cleanup of the previous run
\* has cleared its timer ((tabs)/index.tsx:154)
TimerAfter(prev, new) == new

\* (tabs)/index.tsx:474-505: what the render puts on the screen at time t
RenderQr(l, hidden, t) ==
  IF \/ l = NoTracked
     \/ ~l.qrToken
     \/ ToUpperCase(l.status) = "CANCELLED"
     \/ l.cancelledAt
     \/ hidden
  THEN "none"
  ELSE IF l.consumedAt # NoTime THEN "CONSUMED"
  ELSE IF l.validUntil # NoTime /\ l.validUntil < t THEN "EXPIRED"
  ELSE "ACTIVE"

\* The home screen shows no reservation yet.
QrInit ==
  /\ now = 1
  /\ trackedReservation = NoTracked
  /\ qrCodeHidden = FALSE
  /\ consumedExpiredTimestampRef = NoTime
  /\ reservationIdRef = NONE
  /\ hideTimer = NoTimer
  /\ qrSection = "none"
  /\ gateScans = [i \in QrIds |-> NoTime]

InitQr ==
  /\ AuthInit
  /\ ResOff
  /\ SrvOff
  /\ DetOff
  /\ HomeSrvOff
  /\ HomeOff
  /\ QrInit
  /\ VchOff
  /\ GwOff
  /\ ScOff
  /\ mounted = TRUE
  /\ route = "tabs"

\* setLatestReservation(r) ((tabs)/index.tsx:100, 221, 224), the effect that
\* the commit re-runs ((tabs)/index.tsx:114-161) and the render after it
SetLatestReservation(r) ==
  /\ trackedReservation' = r
  /\ reservationIdRef' = r.id
  /\ consumedExpiredTimestampRef' = EffectRef(r)
  /\ qrCodeHidden' = EffectHidden(r)
  /\ hideTimer' = TimerAfter(hideTimer, EffectTimer(r))
  /\ qrSection' = RenderQr(r, EffectHidden(r), now)
  /\ UNCHANGED <<notQrVars, now, gateScans>>

\* the callback of setTimeout ((tabs)/index.tsx:150-152) and the render after it
HideTimerFires ==
  /\ hideTimer # NoTimer /\ hideTimer.due <= now
  /\ hideTimer' = NoTimer
  /\ qrCodeHidden' = TRUE
  /\ qrSection' = RenderQr(trackedReservation, TRUE, now)
  /\ UNCHANGED <<notQrVars, now, trackedReservation, consumedExpiredTimestampRef,
                 reservationIdRef, gateScans>>

\* another state of the home screen changes (the search text, a loading
\* flag): the component renders again, the effect does not run
Rerender ==
  /\ qrSection' = RenderQr(trackedReservation, qrCodeHidden, now)
  /\ UNCHANGED <<notQrVars, now, trackedReservation, qrCodeHidden,
                 consumedExpiredTimestampRef, reservationIdRef, hideTimer, gateScans>>

\* a minute passes; a timer that is due fires first
ClockTick ==
  /\ now < MaxTime
  /\ hideTimer = NoTimer \/ hideTimer.due > now
  /\ now' = now + 1
  /\ UNCHANGED <<notQrVars, trackedReservation, qrCodeHidden,
                 consumedExpiredTimestampRef, reservationIdRef, hideTimer,
                 qrSection, gateScans>>

\* The gate scanner (not in this repository) redeems the token of
\* reservation i: consumedAt is set, once.
GateScan(i) ==
  /\ gateScans[i] = NoTime
  /\ gateScans' = [gateScans EXCEPT ![i] = now]
  /\ UNCHANGED <<notQrVars, now, trackedReservation, qrCodeHidden,
                 consumedExpiredTimestampRef, reservationIdRef, hideTimer, qrSection>>

QrNext ==
  \/ \E r \in QrAnswers : SetLatestReservation(r)
  \/ HideTimerFires
  \/ Rerender
  \/ ClockTick
  \/ \E i \in QrIds : GateScan(i)

SpecQr == InitQr /\ [][QrNext]_vars

----------------------------------------------------------------------------
\* The voucher displays: the badge and the voucher modal of the home screen
\* and the Available Voucher card of the reservation screen.  Each display
\* is a function of the answers of getVouchers and getMyReservations and of
\* the clock, so the inputs are drawn in the initial state and each action
\* is one display loading without a failure.

\* The vouchers the backend may hold: expiresAt is null, before the clock's
\* time (2), the clock's time itself, or after it.
VoucherInputs ==
  [used : BOOLEAN, usedAt : BOOLEAN, expiresAt : {NoTime, 1, 2, 3},
   reservationId : {NONE, "res1"}, percentage : {10, 20}]
VoucherLists ==
  {<<>>} \cup {<<v>> : v \in VoucherInputs}
         \cup {<<v, w>> : v \in VoucherInputs, w \in VoucherInputs}

\* (tabs)/index.tsx:262-281 and 338-357: vouchers.filter(...)
ActiveVouchers(vs, r) ==
  SelectSeq(vs, LAMBDA v : ActiveVoucher(v, ActiveReservationIds(r)))

\* reservation.tsx:149-151: response.vouchers.filter(...)
AvailableVoucher(v) ==
  ~v.used /\ (v.expiresAt = NoTime \/ v.expiresAt > now)
AvailableVouchers(vs) == SelectSeq(vs, AvailableVoucher)

\* (tabs)/index.tsx:360-362: Array.prototype.sort with the comparator
\* b.percentage - a.percentage; the sort is stable (ECMAScript 2019), so an
\* element goes behind every element whose percentage is not smaller
RECURSIVE InsertByPercentage(_, _)
InsertByPercentage(v, sorted) ==
  IF sorted = <<>> THEN <<v>>
  ELSE IF Head(sorted).percentage >= v.percentage
       THEN <<Head(sorted)>> \o InsertByPercentage(v, Tail(sorted))
       ELSE <<v>> \o sorted
RECURSIVE SortByPercentage(_)
SortByPercentage(vs) ==
  IF vs = <<>> THEN <<>>
  ELSE InsertByPercentage(vs[Len(vs)], SortByPercentage(SubSeq(vs, 1, Len(vs) - 1)))

\* (tabs)/index.tsx:365: activeVouchers.length > 0 ? [activeVouchers[0]] : []
BestOnly(vs) == IF vs # <<>> THEN <<vs[1]>> ELSE <<>>

VchInit ==
  /\ srvStatus \in {NONE, "ACTIVE", "CANCELLED"}
  /\ wireLower \in BOOLEAN
  /\ srvQrToken = FALSE
  /\ srvConsumedAt = FALSE
  /\ srvVouchers \in VoucherLists
  /\ now = 2
  /\ trackedReservation = NoTracked
  /\ qrCodeHidden = FALSE
  /\ consumedExpiredTimestampRef = NoTime
  /\ reservationIdRef = NONE
  /\ hideTimer = NoTimer
  /\ qrSection = "none"
  /\ gateScans = [i \in QrIds |-> NoTime]
  /\ VchOff
  /\ GwOff
  /\ ScOff

InitVouchers ==
  /\ AuthInit
  /\ ResOff
  /\ DetOff
  /\ HomeOff
  /\ VchInit
  /\ mounted = TRUE
  /\ route = "tabs"

\* (tabs)/index.tsx:235-293 checkVouchers, both answers received
CheckVouchersBadge ==
  /\ hasVouchers' = HasActiveVoucher(srvVouchers, ServerReservation)
  /\ vouchersShown' = vouchersShown \cup {"badge"}
  /\ UNCHANGED <<notVchVars, vouchers, availableVouchers>>

\* (tabs)/index.tsx:309-379 fetchVouchersForModal, both answers received
FetchVouchersForModal ==
  /\ vouchers' = BestOnly(SortByPercentage(ActiveVouchers(srvVouchers, ServerReservation)))
  /\ vouchersShown' = vouchersShown \cup {"modal"}
  /\ UNCHANGED <<notVchVars, hasVouchers, availableVouchers>>

\* reservation.tsx:139-160 checkVouchers, answer received; the card of
\* reservation.tsx:355-391 shows availableVouchers[0]
CheckVouchersReservation ==
  /\ availableVouchers' = AvailableVouchers(srvVouchers)
  /\ vouchersShown' = vouchersShown \cup {"reservation"}
  /\ UNCHANGED <<notVchVars, hasVouchers, vouchers>>

VchNext ==
  \/ CheckVouchersBadge
  \/ FetchVouchersForModal
  \/ CheckVouchersReservation

SpecVouchers == InitVouchers /\ [][VchNext]_vars

----------------------------------------------------------------------------
\* The request function of the API gateway (utils/index.ts:216-344).  It is
\* a function of what fetch produced, so the inputs are drawn in the initial
\* state and the one action is a call of apiRequest running to its end.

\* Response bodies, as sequences of tokens; " " is white space.
HtmlBodies ==
  { <<"<!DOCTYPE", "html", ">">>, <<" ", "<!DOCTYPE", "html", ">">>,
    <<"<html", ">">>, <<" ", "<html", ">", " ">> }
JsonBodies ==
  { <<"{", "message", "}">>, <<"{", "}">>, <<" ", "{", "}">>, <<"null">> }
OtherBodies ==
  { <<>>, <<"{", "message">>, <<"Bad", "Gateway">>, <<"<!doctype", "html", ">">> }
Bodies == HtmlBodies \cup JsonBodies \cup OtherBodies
HttpStatuses == {200, 400, 401, 403, 500}

\* What fetch can produce: a response, a TypeError whose message contains
\* 'fetch', or a TypeError whose message does not.
FetchResults ==
  { [fetch |-> f, status |-> 0, isJson |-> FALSE, body |-> <<>>] :
       f \in {"TypeErrorFetch", "TypeErrorOther"} }
  \cup [fetch : {"response"}, status : HttpStatuses, isJson : BOOLEAN, body : Bodies]

\* String.prototype.trim on a token sequence
RECURSIVE TrimStart(_)
TrimStart(b) == IF b # <<>> /\ Head(b) = " " THEN TrimStart(Tail(b)) ELSE b
RECURSIVE TrimEnd(_)
TrimEnd(b) ==
  IF b # <<>> /\ b[Len(b)] = " " THEN TrimEnd(SubSeq(b, 1, Len(b) - 1)) ELSE b
Trim(b) == TrimEnd(TrimStart(b))

\* utils/index.ts:280: text.trim().startsWith('<!DOCTYPE')
StartsWithDoctype(text) == Trim(text) # <<>> /\ Head(Trim(text)) = "<!DOCTYPE"
\* utils/index.ts:280: text.trim().startsWith('<!DOCTYPE') || text.trim().startsWith('<html')
StartsWithHtml(text) ==
  StartsWithDoctype(text) \/ (Trim(text) # <<>> /\ Head(Trim(text)) = "<html")

\* JSON.parse: the value, or SyntaxError
JsonParse(text) ==
  LET t == Trim(text) IN
    IF t = <<"{", "message", "}">> THEN "objectWithMessage"
    ELSE IF t = <<"{", "}">> THEN "object"
    ELSE IF t = <<"null">> THEN "null"
    ELSE "SyntaxError"

\* utils/index.ts:307: response.ok
ResponseOk(r) == r.status >= 200 /\ r.status <= 299

ApiErrorOf(message, status, parsed) ==
  [kind |-> "ApiError", status |-> status, message |-> message, parsed |-> parsed]

\* utils/index.ts:316-343: the outer catch.  err is what was thrown inside
\* the try: a TypeError, or an object with message and status.
OuterCatch(err, parsed) ==
  IF err.kind = "TypeError" /\ err.includesFetch
  THEN ApiErrorOf("Network error. Please check your connection.", 0, parsed)
  ELSE IF err.kind = "ApiError"
  THEN ApiErrorOf(err.message, err.status, parsed)
  ELSE ApiErrorOf(err.message, 0, parsed)

Thrown(message, status) ==
  [kind |-> "ApiError", message |-> message, status |-> status, includesFetch |-> FALSE]
TypeError(message, includesFetch) ==
  [kind |-> "TypeError", message |-> message, status |-> 0, includesFetch |-> includesFetch]

\* utils/index.ts:258-344: apiRequest from the fetch on
ApiRequestResult(r) ==
  IF r.fetch = "TypeErrorFetch"
  THEN OuterCatch(TypeError("Failed to fetch", TRUE), FALSE)
  ELSE IF r.fetch = "TypeErrorOther"
  THEN OuterCatch(TypeError("Network request failed", FALSE), FALSE)
  ELSE IF StartsWithHtml(r.body)
  THEN OuterCatch(Thrown("Server returned an HTML page instead of JSON", r.status), FALSE)
  ELSE IF JsonParse(r.body) = "SyntaxError"
  THEN IF ~r.isJson
       THEN OuterCatch(Thrown("Expected JSON but received", r.status), TRUE)
       ELSE OuterCatch(Thrown("Invalid JSON response from server.", r.status), TRUE)
  ELSE IF ~ResponseOk(r)
  THEN IF JsonParse(r.body) = "null"
       THEN OuterCatch(TypeError("Cannot read property 'message' of null", FALSE), TRUE)
       ELSE IF JsonParse(r.body) = "objectWithMessage"
       THEN OuterCatch(Thrown("data.message", r.status), TRUE)
       ELSE OuterCatch(Thrown("HTTP error! status", r.status), TRUE)
  ELSE [kind |-> "data", status |-> r.status, message |-> NONE, parsed |-> TRUE]

GwInit ==
  /\ gwResponse \in FetchResults
  /\ gwResult = NoResult

InitGateway ==
  /\ AuthInit
  /\ ResOff
  /\ SrvOff
  /\ DetOff
  /\ HomeSrvOff
  /\ HomeOff
  /\ QrOff
  /\ VchOff
  /\ GwInit
  /\ ScOff
  /\ mounted = TRUE
  /\ route = "tabs"

\* utils/index.ts:216-344
ApiRequest ==
  /\ gwResult = NoResult
  /\ gwResult' = ApiRequestResult(gwResponse)
  /\ UNCHANGED <<notGwVars, gwResponse>>

\* the caller is done with the result; the next request gets its response
NextRequest ==
  /\ gwResult # NoResult
  /\ gwResponse' \in FetchResults
  /\ gwResult' = NoResult
  /\ UNCHANGED notGwVars

GwNext ==
  \/ ApiRequest
  \/ NextRequest

SpecGateway == InitGateway /\ [][GwNext]_vars

----------------------------------------------------------------------------
\* The gate scanner app: the QRScanner component (src/unnamed/part_009) inside
\* ScannerScreen (src/unnamed/part_010).  Times are in seconds.

\* Config.SCANNER (constants/Colors.ts:113-118), in seconds
SCAN_INTERVAL == 2
SUCCESS_DISPLAY_TIME == 3
ERROR_DISPLAY_TIME == 4

\* Number of scans the screen accepts, and the last second of the clock.
MaxScans == 3
MaxScTime == 9

\* The QR codes held in front of the camera.
QrData == {"qrA", "qrB"}

\* How a validateQRCode call ends: response.success, a response without
\* success, or an exception (part_010:62, 111, 131).
ValidationResults == {"success", "denied", "thrown"}

\* The scanner screen was opened: Date.now() is far from the ref's initial 0.
ScInit ==
  /\ isScanning = TRUE
  /\ scanStatus = "idle"
  /\ lastScannedToken = NoData
  /\ lastScannedData = NoData
  /\ lastScanTime = 0
  /\ resetTimers = {}
  /\ validations = {}
  /\ scanCount = 0
  /\ scNow = SCAN_INTERVAL

InitScanner ==
  /\ token = NONE
  /\ user = NONE
  /\ ResOff
  /\ SrvOff
  /\ DetOff
  /\ HomeSrvOff
  /\ HomeOff
  /\ QrOff
  /\ VchOff
  /\ GwOff
  /\ ScInit
  /\ mounted = TRUE
  /\ route = "scanner"

\* part_009:62-69: does handleBarCodeScanned let the data d through?
Accepted(d) ==
  ~ (\/ scNow - lastScanTime < SCAN_INTERVAL
     \/ d = lastScannedData
     \/ ~isScanning)

\* part_010:155-159
ResetScanner ==
  /\ isScanning' = TRUE
  /\ scanStatus' = "idle"
  /\ lastScannedToken' = NoData

\* part_010:40-58: handleScan up to `await apiService.validateQRCode(...)`
HandleScan(d) ==
  IF d = lastScannedToken
  THEN UNCHANGED <<isScanning, lastScannedToken, scanStatus, validations, scanCount>>
  ELSE /\ isScanning' = FALSE
       /\ lastScannedToken' = d
       /\ scanStatus' = "validating"
       /\ scanCount' = scanCount + 1
       /\ validations' = validations \cup {[data |-> d, scan |-> scanCount + 1]}

\* The camera reports the code d (part_009:58-80; the prop onBarcodeScanned is
\* set only while isScanning, part_009:126) and onScan runs handleScan.
HandleBarCodeScanned(d) ==
  /\ isScanning
  /\ Accepted(d)
  /\ scanCount < MaxScans
  /\ lastScanTime' = scNow
  /\ lastScannedData' = d
  /\ HandleScan(d)
  /\ UNCHANGED <<notScVars, resetTimers, scNow>>

\* part_010:107-109, 127-129, 147-149: how long the result stays
DisplayTime(out) == IF out = "success" THEN SUCCESS_DISPLAY_TIME ELSE ERROR_DISPLAY_TIME

\* handleScan resumes after `await apiService.validateQRCode(...)`
\* (part_010:62-150): it shows the result and schedules resetScanner
ValidateResponse(v, out) ==
  /\ v \in validations
  /\ validations' = validations \ {v}
  /\ scanStatus' = IF out = "success" THEN "success" ELSE "error"
  /\ resetTimers' = resetTimers \cup {[due |-> scNow + DisplayTime(out), scan |-> v.scan]}
  /\ UNCHANGED <<notScVars, isScanning, lastScannedToken, lastScannedData, lastScanTime,
                 scanCount, scNow>>

\* the callback of setTimeout (part_010:107-109, 127-129, 147-149)
ResetTimerFires(t) ==
  /\ t \in resetTimers
  /\ t.due <= scNow
  /\ resetTimers' = resetTimers \ {t}
  /\ ResetScanner
  /\ UNCHANGED <<notScVars, lastScannedData, lastScanTime, validations, scanCount, scNow>>

\* the Scan Another button (part_010:161-166), rendered while a result is
\* shown (part_010:215)
HandleManualReset ==
  /\ scanStatus \in {"success", "error"}
  /\ ResetScanner
  /\ UNCHANGED <<notScVars, lastScannedData, lastScanTime, resetTimers, validations,
                 scanCount, scNow>>

\* a second passes; a timer that is due fires first
ScClockTick ==
  /\ scNow < MaxScTime
  /\ \A t \in resetTimers : t.due > scNow
  /\ scNow' = scNow + 1
  /\ UNCHANGED <<notScVars, isScanning, scanStatus, lastScannedToken, lastScannedData,
                 lastScanTime, resetTimers, validations, scanCount>>

ScNext ==
  \/ \E d \in QrData : HandleBarCodeScanned(d)
  \/ \E v \in validations, out \in ValidationResults : ValidateResponse(v, out)
  \/ \E t \in resetTimers : ResetTimerFires(t)
  \/ HandleManualReset
  \/ ScClockTick

SpecScanner == InitScanner /\ [][ScNext]_vars

----------------------------------------------------------------------------
\* Statements about the reservation screen, checked under Spec.

\* A step at which some pollForPayment invocation starts its confirmPayment call.
CallStarted == \E p \in PollIds : polls[p] = "getToken" /\ polls'[p] = "inflight"

\* A step at which the mounted screen processes a confirming response.
SuccessProcessed ==
  \E p \in PollIds, r \in ConfirmResponses :
     mounted /\ r.ok /\ (r.rstatus = "CONFIRMED" \/ r.already) /\ PollResponse(p, r)

\* C1: when the mounted screen processes a confirmPayment response with status
\* CONFIRMED or alreadyConfirmed, waitingForPayment becomes false, the status
\* becomes ACTIVE, the error becomes null, the success modal is raised, and from
\* then on no further confirmPayment call is started.
C1_SuccessStopsPolling ==
  [][ /\ (SuccessProcessed =>
            /\ ~waitingForPayment'
            /\ reservationStatus' = "ACTIVE"
            /\ error' = NONE
            /\ showSuccessModal'
            /\ intervals' = 0)
      /\ (successDone => ~CallStarted) ]_vars

\* A step at which the mounted screen processes a confirmPayment failure whose
\* status is not 401.
FailureProcessed(p) ==
  \E r \in ConfirmResponses :
     mounted /\ ~r.ok /\ r.code # 401 /\ PollResponse(p, r)

\* C2: processing a confirmPayment failure whose status is not 401 (400, another
\* HTTP status, 0) leaves the timer live (the next tick still polls), the error
\* unchanged and the reservation status unchanged (PENDING stays PENDING); the
\* invocation ends without touching the credentials or the route.
C2_FailureKeepsPolling ==
  [][ \A p \in PollIds :
        FailureProcessed(p) =>
          /\ intervals' = intervals
          /\ waitingForPayment' = waitingForPayment
          /\ error' = error
          /\ reservationStatus' = reservationStatus
          /\ showSuccessModal' = showSuccessModal
          /\ polls'[p] = "free"
          /\ UNCHANGED <<token, user, route, mounted>> ]_vars

\* C2 witness: a non-401 failure was processed last while the poller is live,
\* the reservation is PENDING and no error is shown.
C2_Witness ==
  /\ lastResp = "failed"
  /\ mounted /\ intervals = 1 /\ waitingForPayment
  /\ reservationStatus = "PENDING"
  /\ error = NONE

C4_PollerTerminates ==
  [][ (successDone \/ e401Done \/ ~mounted) => ~CallStarted ]_vars

\* C5: once the first confirmation was processed, processing a further
\* confirming response leaves status ACTIVE, waitingForPayment false and error
\* null, and does not raise the success modal again.
C5_ConfirmIdempotent ==
  [][ (successDone /\ SuccessProcessed) =>
        /\ reservationStatus' = "ACTIVE"
        /\ ~waitingForPayment'
        /\ error' = NONE
        /\ (showSuccessModal' => showSuccessModal) ]_vars

\* C8: reservationStatus changes only from none to PENDING and from PENDING to
\* ACTIVE.
C8_StatusEdges ==
  [][ reservationStatus' # reservationStatus =>
        \/ (reservationStatus = NONE /\ reservationStatus' = "PENDING")
        \/ (reservationStatus = "PENDING" /\ reservationStatus' = "ACTIVE") ]_vars

\* C8 witness: the status went from none through PENDING to ACTIVE.
C8_Witness ==
  /\ reservationStatus = "ACTIVE"
  /\ successDone
  /\ reservationId # NONE

\* C9: a reserve action with locationId or gateId missing sets the validation
\* error, starts neither the token read nor createReservation, and leaves
\* reservationId, sessionId, checkoutUrl, reservationStatus and
\* waitingForPayment unchanged.
C9_CreateValidation ==
  [][ ((gateId = NONE \/ locationId = NONE) /\ HandleReserve) =>
        /\ error' = ERR_MISSING
        /\ resPc' = "idle"
        /\ ~reserving'
        /\ UNCHANGED <<reservationId, sessionId, checkoutUrl, reservationStatus,
                       waitingForPayment, intervals, polls>> ]_vars

\* C9 witness: the validation error is shown and nothing was created.
C9_Witness ==
  /\ error = ERR_MISSING
  /\ gateId = NONE
  /\ reservationId = NONE /\ resPc = "idle"

----------------------------------------------------------------------------
\* Statements about the details screen, checked under SpecDetails.

\* C6: handleCancelReservation entered while the held status, upper-cased, is
\* none of PENDING, ACTIVE, CONFIRMED sets the error, starts no token read and
\* no cancelReservation call, and leaves the held reservation, the backend's
\* copy and the cancelling flag unchanged.
C6_CancelGuard ==
  [][ ( /\ dReservation # NoReservation
        /\ ToUpperCase(dReservation.status) \notin {"PENDING", "ACTIVE", "CONFIRMED"}
        /\ HandleCancelReservation ) =>
        /\ dError' = ERR_CANNOT_CANCEL
        /\ detPc' = "idle"
        /\ dReservation' = dReservation
        /\ srvStatus' = srvStatus
        /\ ~dCancelling' ]_vars

\* C6 witness: the guard refused a cancel of a reservation held as cancelled.
C6_Witness ==
  /\ dError = ERR_CANNOT_CANCEL
  /\ dReservation # NoReservation
  /\ ToUpperCase(dReservation.status) = "CANCELLED"
  /\ detPc = "idle"

----------------------------------------------------------------------------
\* Statements about the home screen, checked under SpecHome.

Terminal(status) == ToUpperCase(status) \in {"CANCELLED", "COMPLETED", "EXPIRED"}

\* C7: once the reservation a screen holds has status CANCELLED, COMPLETED or
\* EXPIRED, no step changes the status the screen holds for that reservation:
\* neither the one of the details screen nor the one of the home screen.
C7_TerminalAbsorbing ==
  [][ /\ (dReservation # NoReservation /\ Terminal(dReservation.status)
            /\ dReservation' # NoReservation)
          => dReservation'.status = dReservation.status
      /\ (latestReservation # NoLatest /\ Terminal(latestReservation.status)
            /\ latestReservation'.id = latestReservation.id)
          => latestReservation'.status = latestReservation.status ]_vars

\* A step at which a handler of the home screen returns after its request was
\* answered with a 401.
Returned401 ==
  \E c \in BagToSet(calls) :
     \/ c.snap.out = "401" /\ (LatestResponse(c) \/ QrResponse(c))
     \/ VouchersResponse(c, "401")
     \/ VouchersReservationsResponse(c, "401")

\* C10: when the handler of a request that was answered with a 401 returns,
\* the stored token and user are cleared and the router is on the welcome
\* screen: for the requests of the home screen (reservation fetch, voucher
\* check, QR consumption poll) as for the payment poller.
C10_UnauthorizedUniform ==
  [][ /\ Returned401
           => (token' = NONE /\ user' = NONE /\ route' = "welcome")
      /\ (\E p \in PollIds : polls[p] = "clearAuth" /\ polls'[p] = "free")
           => (token' = NONE /\ user' = NONE /\ route' = "welcome") ]_vars

----------------------------------------------------------------------------
\* Statements about the QR section of the home screen, checked under SpecQr.

\* The tracked reservation is cancelled.
TrackedCancelled ==
  ToUpperCase(trackedReservation.status) = "CANCELLED" \/ trackedReservation.cancelledAt

\* C11: whenever the home screen tracks a reservation with a QR token, what
\* is on the screen is the derivation applied to the clock and the
\* reservation: nothing if it is cancelled; else the CONSUMED overlay (or
\* nothing, once the grace window has hidden it) if consumedAt is set; else the
\* EXPIRED overlay if validUntil is before now; else the plain code.
C11_QrDerivation ==
  (trackedReservation # NoTracked /\ trackedReservation.qrToken) =>
     IF TrackedCancelled THEN qrSection = "none"
     ELSE IF trackedReservation.consumedAt # NoTime
     THEN qrSection \in {"CONSUMED", "none"}
     ELSE IF trackedReservation.validUntil # NoTime /\ trackedReservation.validUntil < now
     THEN qrSection = "EXPIRED"
     ELSE qrSection = "ACTIVE"

\* The home screen tracks a reservation with a QR token that is not cancelled
\* and was consumed.
TrackedConsumed ==
  /\ trackedReservation # NoTracked
  /\ trackedReservation.qrToken
  /\ ~TrackedCancelled
  /\ trackedReservation.consumedAt # NoTime

C13_ResetOnIdChange ==
  [][ /\ (trackedReservation'.id # trackedReservation.id) =>
            /\ consumedExpiredTimestampRef' \in {NoTime, trackedReservation'.consumedAt}
            /\ qrCodeHidden' =>
                 /\ trackedReservation'.consumedAt # NoTime
                 /\ now - trackedReservation'.consumedAt >= TwoMinutes
            /\ hideTimer'.id \in {NONE, trackedReservation'.id}
      /\ HideTimerFires => hideTimer.id = trackedReservation.id ]_vars

\* C13 witness: resB is tracked with its own timer pending, after resA was
\* consumed at another minute.
C13_Witness ==
  /\ trackedReservation.id = "resB"
  /\ reservationIdRef = "resB"
  /\ hideTimer.id = "resB"
  /\ gateScans["resA"] # NoTime
  /\ gateScans["resA"] # gateScans["resB"]

\* C14: whenever a screen shows the QR token without a CONSUMED or EXPIRED
\* marking (the plain code of the home screen, the QR Code Token card of the
\* details screen), the reservation it holds is not cancelled.
C14_QrTokenDerived ==
  /\ QrTokenCard => ToUpperCase(dReservation.status) # "CANCELLED"
  /\ qrSection = "ACTIVE" => ~TrackedCancelled

----------------------------------------------------------------------------
\* Statements about the voucher displays, checked under SpecVouchers.

\* The reservation the voucher is linked to is in flight.
LinkedInFlight(v) ==
  /\ v.reservationId # NONE
  /\ ServerReservation # NoLatest
  /\ ServerReservation.id = v.reservationId
  /\ ToUpperCase(ServerReservation.status) \in {"PENDING", "ACTIVE", "CONFIRMED"}

\* The voucher is eligible: not used, no usedAt, not expired at the clock's
\* time, and not linked to a reservation in flight.
Eligible(v) ==
  /\ ~v.used
  /\ ~v.usedAt
  /\ ~(v.expiresAt # NoTime /\ v.expiresAt <= now)
  /\ ~LinkedInFlight(v)

\* C15: every voucher display that has loaded is built from exactly the
\* eligible vouchers: the badge is there iff some voucher is eligible, the
\* modal lists an eligible voucher iff there is one, and the reservation
\* screen holds exactly the eligible vouchers.
C15_VoucherEligibility ==
  /\ "badge" \in vouchersShown
       => (hasVouchers <=> \E k \in 1..Len(srvVouchers) : Eligible(srvVouchers[k]))
  /\ "modal" \in vouchersShown
       => /\ \A k \in 1..Len(vouchers) : Eligible(vouchers[k])
          /\ vouchers # <<>> <=> \E k \in 1..Len(srvVouchers) : Eligible(srvVouchers[k])
  /\ "reservation" \in vouchersShown
       => availableVouchers = SelectSeq(srvVouchers, Eligible)

\* The voucher at position k of the backend's list is eligible, no eligible
\* voucher has a higher percentage, and none before it has the same.
IsBest(k) ==
  /\ Eligible(srvVouchers[k])
  /\ \A j \in 1..Len(srvVouchers) :
       Eligible(srvVouchers[j]) =>
          /\ srvVouchers[j].percentage <= srvVouchers[k].percentage
          /\ srvVouchers[j].percentage = srvVouchers[k].percentage => j >= k

\* C16: the single voucher the modal lists, and the single voucher the
\* Available Voucher card of the reservation screen shows, is the first
\* eligible voucher of highest percentage.
C16_BestVoucher ==
  /\ ("modal" \in vouchersShown /\ vouchers # <<>>)
       => \E k \in 1..Len(srvVouchers) : IsBest(k) /\ vouchers[1] = srvVouchers[k]
  /\ ("reservation" \in vouchersShown /\ availableVouchers # <<>>)
       => \E k \in 1..Len(srvVouchers) :
             IsBest(k) /\ availableVouchers[1] = srvVouchers[k]

----------------------------------------------------------------------------
\* Statements about the gateway's request function, checked under
\* SpecGateway.

\* C17: a request whose response body is an HTML page (it starts, after
\* white space, with <!DOCTYPE or <html) fails with an ApiError whose status
\* is the response's HTTP status and whose message says that an HTML page
\* was returned, and JSON.parse was not called.
C17_HtmlDetection ==
  (gwResult # NoResult /\ gwResponse.fetch = "response" /\ gwResponse.body \in HtmlBodies)
     => /\ gwResult.kind = "ApiError"
        /\ gwResult.status = gwResponse.status
        /\ gwResult.message = "Server returned an HTML page instead of JSON"
        /\ ~gwResult.parsed

\* C17 witness: a 500 whose body is an <html page, with white space before
\* it, has failed with status 500.
C17_Witness ==
  /\ gwResponse.fetch = "response"
  /\ gwResponse.status = 500
  /\ gwResponse.body = <<" ", "<html", ">", " ">>
  /\ gwResult.kind = "ApiError"
  /\ gwResult.status = 500

\* C18: every failure of the request function is an object with message and
\* status; the status is the HTTP status for a non-2xx response whose body
\* is JSON, 0 when fetch failed, and 0 when the body is malformed JSON.
C18_FailureTaxonomy ==
  (gwResult # NoResult /\ gwResult.kind # "data") =>
     /\ gwResult.kind = "ApiError"
     /\ gwResult.message # NONE
     /\ (gwResponse.fetch = "response" /\ gwResponse.body \in JsonBodies)
          => gwResult.status = gwResponse.status
     /\ gwResponse.fetch # "response" => gwResult.status = 0
     /\ (gwResponse.fetch = "response" /\ gwResponse.body \in OtherBodies)
          => gwResult.status = 0

----------------------------------------------------------------------------
\* C19: a client decision that depends on a reservation status has the same
\* outcome for two statuses that differ only in letter case: a poll that
\* processes a confirmPayment response does what it does on the same
\* response with the status in upper case.
C19_StatusCaseInsensitive ==
  [][ \A p \in PollIds, r \in ConfirmResponses :
        PollResponse(p, r)
          => PollResponse(p, [r EXCEPT !.rstatus = ToUpperCase(r.rstatus)]) ]_vars

\* The status is none of the six the client knows, in any letter case.
Unrecognized(status) == ToUpperCase(status) \notin Statuses

\* C20: while the details screen holds a reservation with an unrecognized
\* status the cancel button is not offered and no step starts a cancel
\* request; the fetch that stores such a reservation stores it as it came
\* and leaves no error; and the home screen's filter keeps such a
\* reservation.
C20_UnrecognizedStatus ==
  [][ /\ (dReservation # NoReservation /\ Unrecognized(dReservation.status))
            => /\ ~CancelOffered
               /\ detPc' \notin {"cancelGetToken", "cancelInflight", "cancelClearAuth"}
      /\ (dReservation' # dReservation /\ Unrecognized(dReservation'.status))
            => /\ dReservation'.status = UnknownStatus
               /\ dError' = NONE
               /\ ~CancelOffered'
      /\ LatestOf([NoLatest EXCEPT !.id = "res1", !.status = UnknownStatus]).status
            = UnknownStatus ]_vars

\* C20 witness: the details screen shows a reservation whose status is
\* unrecognized, with nothing in flight and no error.
C20_Witness ==
  /\ mounted /\ ~dLoading /\ dError = NONE /\ detPc = "idle"
  /\ dReservation # NoReservation
  /\ dReservation.status = UnknownStatus

----------------------------------------------------------------------------
\* Statements about the return from the details screen, checked under
\* SpecReturn.

\* A refresh of the voucher check is on its way.
VoucherCheckPending ==
  \E c \in HomeCalls : c.kind \in {"checkAuth", "refresh", "vouchers"}

\* C21: once a cancel request has succeeded and the user is back on the
\* focused home screen with no voucher check on its way, the voucher
\* affordance reflects the vouchers as they are after the cancellation.
C21_VoucherRefreshAfterCancel ==
  (srvStatus = "CANCELLED" /\ HomeMounted /\ HomeOnTop /\ focused
     /\ ~VoucherCheckPending)
    => hasVouchers = HasActiveVoucher(srvVouchers, ServerReservation)

\* The first two confirmPayment calls failed with status 400 and the third one
\* confirmed the payment.
ScenarioLog == <<"failed400", "failed400", "confirmed">>

ScenarioDone == Len(pollLog) >= 3 /\ SubSeq(pollLog, 1, 3) = ScenarioLog

\* The reservation the home screen fetches after the payment was confirmed:
\* ACTIVE with a QR token, not consumed, not cancelled, valid past the clock.
ConfirmedReservation ==
  [id |-> "resA", status |-> "ACTIVE", qrToken |-> TRUE, consumedAt |-> NoTime,
   validUntil |-> MaxTime, cancelledAt |-> FALSE]

\* C22: when the first two confirmPayment calls fail with 400 and the third
\* confirms, no error is on the screen while only failures were processed; the
\* step that processes the confirmation makes the status ACTIVE and clears the
\* timer; after it no confirmPayment call is started; and the home screen's QR
\* section for the confirmed reservation shows ACTIVE.
C22_PaymentScenario ==
  [][ /\ (mounted /\ waitingForPayment /\ pollLog \in {<<"failed400">>, <<"failed400", "failed400">>})
           => error = NONE
      /\ (mounted /\ ~ScenarioDone /\ ScenarioDone')
           => /\ reservationStatus' = "ACTIVE"
              /\ ~waitingForPayment'
              /\ error' = NONE
              /\ intervals' = 0
              /\ RenderQr(ConfirmedReservation, FALSE, now) = "ACTIVE"
      /\ ScenarioDone => ~CallStarted ]_vars

\* A step whose commit runs the body of the polling effect: the deps changed
\* and the guard of reservation.tsx:59 passes.
EffectStarted ==
  /\ mounted'
  /\ EffectLive(waitingForPayment', reservationId', sessionId')
  /\ <<waitingForPayment', reservationId', sessionId'>>
       # <<waitingForPayment, reservationId, sessionId>>

\* The invocations of pollForPayment a step starts.
PollsStarted == {p \in PollIds : polls[p] = "free" /\ polls'[p] = "getToken"}

\* C23: the step that makes the poller live creates the interval and starts
\* one pollForPayment at once; afterwards an invocation is started only by a
\* tick of the live interval, one per tick; a started invocation that finds
\* the token issues its confirmPayment call as its next step.
C23_PollerCadence ==
  [][ /\ EffectStarted => (intervals' = 1 /\ Cardinality(PollsStarted) = 1)
      /\ Tick => Cardinality(PollsStarted) = 1
      /\ (PollsStarted # {} /\ ~EffectStarted) => (mounted /\ intervals = 1 /\ Tick)
      /\ \A p \in PollIds :
           (polls[p] = "getToken" /\ polls'[p] # "getToken" /\ token # NONE)
             => polls'[p] = "inflight" ]_vars

\* C23 witness: the poller is live and two confirmPayment calls are in flight,
\* the immediate one and one started by a tick.
C23_Witness ==
  /\ mounted /\ intervals = 1 /\ waitingForPayment
  /\ Cardinality({p \in PollIds : polls[p] = "inflight"}) >= 2
  /\ pollLog = <<>>

\* C24: at most one payment-poller interval is live: there is exactly one
\* while the screen is mounted and the guard of the effect passes for the
\* current deps, and none otherwise, so a re-run has cleared the interval of
\* the run before it and the unmount has cleared the last one.
C24_SingleTimer ==
  intervals =
    IF mounted /\ EffectLive(waitingForPayment, reservationId, sessionId) THEN 1 ELSE 0

\* C24 witness: the screen was left while it waited for the payment, and the
\* interval is gone.
C24_Witness ==
  /\ ~mounted
  /\ EffectLive(waitingForPayment, reservationId, sessionId)
  /\ intervals = 0

\* A step at which the QR consumption loop of the home screen starts an
\* invocation of its callback or sends the getMyReservations request of one.
QrPollActs == QrTick \/ \E c \in HomeCalls : token # NONE /\ QrGetToken(c)

\* C25: while the home screen is not focused, or is torn down, its QR
\* consumption loop starts no invocation and sends no request.
C25_PollsFocusScoped ==
  [][ ~(HomeMounted /\ focused) => ~QrPollActs ]_vars

\* A step at which the mounted home screen's QR consumption poll resumes with
\* a successful answer that contains the reservation the screen holds.
QrAnswerProcessed(c) ==
  /\ QrResponse(c)
  /\ HomeMounted
  /\ c.snap.out = "ok"
  /\ c.snap.r # NoLatest
  /\ latestReservation # NoLatest
  /\ c.snap.r.id = latestReservation.id

\* C26: when the QR consumption poll has processed a successful answer that
\* contains the held reservation, the held reservation is the answer's copy;
\* if that copy is cancelled the QR consumption effect no longer finds a code
\* to show.
C26_LatestResponseAuthoritative ==
  [][ \A c \in HomeCalls :
        QrAnswerProcessed(c) =>
          /\ latestReservation' = c.snap.r
          /\ (ToUpperCase(c.snap.r.status) = "CANCELLED" \/ c.snap.r.cancelledAt)
               => ~ShouldPoll(latestReservation') ]_vars

\* The payment poller's owner is gone: the screen is unmounted, or the effect
\* cleanup has cleared the interval.
PollerGone == ~mounted \/ intervals = 0

\* C27: when a confirmPayment call is answered after the poller's owner is
\* gone, the invocation ends there and the screen state, the credentials and
\* the route stay as they are; an invocation that resumes from clearAuth after
\* the owner is gone clears no credentials and does not navigate.
C27_NoActionAfterOwnerGone ==
  [][ \A p \in PollIds :
        /\ (PollerGone /\ \E r \in ConfirmResponses : PollResponse(p, r))
             => /\ polls'[p] = "free"
                /\ UNCHANGED <<screenVars, token, user, route>>
        /\ (PollerGone /\ PollClearAuth(p))
             => UNCHANGED <<token, user, route>> ]_vars

\* A step at which the button's press takes the create branch (handleReserve
\* passes its validation) or handleReserve calls createReservation.
CreateStarted ==
  \/ (resPc = "idle" /\ resPc' = "getToken")
  \/ (resPc = "getToken" /\ resPc' = "creating")

\* A step at which the button is pressed and its handler starts.
ButtonPressed == mounted /\ ~reserving /\ reserving'

\* C28: once createReservation has succeeded, no press takes the create branch
\* and no createReservation call is started, and every press of the button
\* opens the stored checkout; while handleReserve is running the button is
\* disabled, so no second create is started beside it.
C28_SingleReservation ==
  [][ /\ reservationId # NONE => ~CreateStarted
      /\ (reservationId # NONE /\ ButtonPressed)
           => /\ resPc' = "browser"
              /\ UNCHANGED <<reservationId, sessionId, checkoutUrl>>
      /\ (mounted /\ resPc \in {"getToken", "creating"}) => (reserving /\ ~ButtonPressed) ]_vars

\* C28 witness: a reservation was created, its checkout is stored, and the
\* button is on the screen again and enabled.
C28_Witness ==
  /\ ButtonVisible /\ ~reserving /\ resPc = "idle"
  /\ reservationId # NONE
  /\ reservationStatus = "PENDING" /\ checkoutUrl # NONE

\* The scanner was reset and the scan interval since the last scan is over.
ScannerReady ==
  /\ isScanning
  /\ scanStatus = "idle"
  /\ validations = {}
  /\ scNow - lastScanTime >= SCAN_INTERVAL

\* C29: when the scanner was reset and the scan interval is over, every QR
\* code, the one scanned last included, passes handleBarCodeScanned and
\* handleScan and so starts a validation.
C29_RescanAfterReset ==
  ScannerReady => \A d \in QrData : Accepted(d) /\ d # lastScannedToken

\* C30: a reset timer that fires while a scan is validated or a result is
\* shown is the timer of that scan; at most one validateQRCode call is in
\* flight.
C30_TimerOwnResult ==
  [][ /\ \A t \in resetTimers :
           (ResetTimerFires(t) /\ scanStatus # "idle") => t.scan = scanCount
      /\ Cardinality(validations') <= 1 ]_vars
====
